---- MODULE Spec2Model ----
(***************************************************************************)
(* Klondike solitaire engine of cardsim: cards, Deck (stock/waste), Pile   *)
(* (tableau), Foundation and KlondikeSolitaireGame with its move state     *)
(* machine (src/src/games/solitaire/klondike.rs, src/src/cards/french.rs). *)
(*                                                                         *)
(* Rust Vec<T> / slices are TLA+ sequences; the helpers At, Slice and      *)
(* Remove keep the 0-based indices of the source.  Option<T> is a sequence *)
(* of length 0 (None) or 1 (Some).  Fixed-size arrays ([Pile; 7],          *)
(* [Foundation; 4]) are functions on 0..n-1.                               *)
(***************************************************************************)
EXTENDS Integers, Sequences, FiniteSets, TLC

VARIABLES
  cards,        \* KlondikeSolitaireGame.cards: the 52-card pool, in deal order
  foundations,  \* KlondikeSolitaireGame.foundations
  piles,        \* KlondikeSolitaireGame.piles
  deck,         \* KlondikeSolitaireGame.deck
  op,           \* the call made last (for move_cards: its kind of source and target)
  result,       \* what that call returned
  steps,        \* number of calls made so far
  moved,        \* SimpleKlondikeStrategy::play: its local moved
  wins,         \* run_klondike: the shared counter wins
  games,        \* run_klondike: the shared counter games
  threads       \* run_klondike: the workers spawned, each with its locals

vars ==
  <<cards, foundations, piles, deck, op, result, steps,
    moved, wins, games, threads>>

\* the variables that only play and run_klondike use
runVars == <<moved, wins, games, threads>>

\* neither play nor run_klondike has started
NoRun == moved = FALSE /\ wins = 0 /\ games = 0 /\ threads = <<>>

(***************************************************************************)
(* Bounds of the exploration.                                              *)
(***************************************************************************)
\* number of API calls explored from each initial game
MaxSteps == 3
\* a Deck on its own: largest draw_count and largest number of cards given to it
MaxDrawCount == 3
MaxDeckCards == 7
\* two Piles on their own: number of calls explored from each initial pair
MaxPileSteps == 3
\* run_klondike: largest game_count and thread_count
MaxGames == 4
MaxThreads == 3
\* run_klondike with a filter that may reject: largest game_count and
\* thread_count, and the deals a worker's rng holds beyond its games
MaxFilteredGames == 2
MaxFilteredThreads == 1
MaxRejects == 1

(***************************************************************************)
(* Rust value helpers.                                                      *)
(***************************************************************************)
None == <<>>
Some(x) == <<x>>

At(s, i) == s[i + 1]
Slice(s, a, b) == SubSeq(s, a + 1, b)
SliceFrom(s, a) == SubSeq(s, a + 1, Len(s))
Remove(s, i) == SubSeq(s, 1, i) \o SubSeq(s, i + 2, Len(s))
Min(a, b) == IF a < b THEN a ELSE b
Range(s) == {s[i] : i \in 1..Len(s)}
Distinct(s) == \A i, j \in 1..Len(s) : s[i] = s[j] => i = j

Ok == [tag |-> "Ok", val |-> <<>>]
Err(e) == [tag |-> "Err", val |-> <<e>>]
Unit == [tag |-> "Unit", val |-> <<>>]
Bool(b) == [tag |-> "Bool", val |-> <<b>>]
\* a failed assert!, debug_assert! or unwrap(): the call does not return
Panic == [tag |-> "Panic", val |-> <<>>]
\* a constructor returned the value it built
Constructed == [tag |-> "Constructed", val |-> <<>>]
\* an Option<Card> as a returned value
Returned(o) ==
  IF o = None THEN [tag |-> "None", val |-> <<>>]
  ELSE [tag |-> "Some", val |-> o]

(***************************************************************************)
(* cards::french                                                           *)
(***************************************************************************)
STANDARD_DECK_SIZE == 52

\* Suit::standard_iter order
SUITS == <<"Diamonds", "Hearts", "Clubs", "Spades">>

Suit == Range(SUITS)

SuitColor(suit) ==
  IF suit \in {"Diamonds", "Hearts"} THEN "Red" ELSE "Black"

ColorOther(color) == IF color = "Red" THEN "Black" ELSE "Red"

\* Rank::standard_iter order
STANDARD_RANKS ==
  <<"Ace", "2", "3", "4", "5", "6", "7", "8", "9", "10",
    "Jack", "Queen", "King">>

Card(suit, rank) == [suit |-> suit, rank |-> rank]

CardColor(card) == SuitColor(card.suit)

new_standard_deck ==
  [n \in 1..STANDARD_DECK_SIZE |->
     Card(SUITS[((n - 1) \div 13) + 1], STANDARD_RANKS[((n - 1) % 13) + 1])]

(***************************************************************************)
(* games::solitaire::klondike constants                                    *)
(***************************************************************************)
MAX_DECK_SIZE == 24
NUM_PILES == 7
NUM_FOUNDATIONS == 4

RANKS ==
  [i \in 0..12 |->
     At(<<"Ace", "2", "3", "4", "5", "6", "7", "8", "9", "10",
          "Jack", "Queen", "King">>, i)]

RANKS_len == 13

rank_index(rank) == CHOOSE i \in 0..(RANKS_len - 1) : RANKS[i] = rank

(***************************************************************************)
(* Deck                                                                    *)
(***************************************************************************)
DeckNew(draw_count) ==
  [cards |-> <<>>, draw_count |-> draw_count,
   visible_index |-> 0, visible_count |-> 0]

\* the assertions of Deck::from without the one on the width of the window
DeckFromValid_AnyWindow(draw_count, waste, visible, remaining) ==
  /\ draw_count > 0 /\ draw_count <= MAX_DECK_SIZE
  /\ Len(waste) + Len(visible) + Len(remaining) <= MAX_DECK_SIZE
  /\ Distinct(waste \o visible \o remaining)

\* the assertions of Deck::from
DeckFromValid(draw_count, waste, visible, remaining) ==
  /\ draw_count > 0 /\ draw_count <= MAX_DECK_SIZE
  /\ Len(visible) <= draw_count
  /\ Len(waste) + Len(visible) + Len(remaining) <= MAX_DECK_SIZE
  /\ Distinct(waste \o visible \o remaining)

DeckFrom(draw_count, waste, visible, remaining) ==
  [cards |-> waste \o visible \o remaining, draw_count |-> draw_count,
   visible_index |-> Len(waste), visible_count |-> Len(visible)]

\* the call Deck::from(draw_count, waste, visible, remaining): a Deck, or a
\* panic from one of its assertions
DeckFromCall(draw_count, waste, visible, remaining) ==
  IF DeckFromValid(draw_count, waste, visible, remaining)
  THEN [deck |-> DeckFrom(draw_count, waste, visible, remaining),
        ret |-> Constructed]
  ELSE [deck |-> <<>>, ret |-> Panic]

\* DeckReset replacing the cards but leaving the window where it was
DeckReset_KeepsWindow(d, cs) ==
  [d EXCEPT !.cards = cs]

DeckReset(d, cs) ==
  [d EXCEPT !.cards = cs, !.visible_index = 0, !.visible_count = 0]

DeckIsEmpty(d) == Len(d.cards) = 0

DeckLen(d) == Len(d.cards)

\* DeckTop reporting the first card of the window instead of the last
DeckTop_FirstVisible(d) ==
  IF d.visible_count = 0
  THEN None
  ELSE Some(At(d.cards, d.visible_index))

DeckTop(d) ==
  IF d.visible_count = 0
  THEN None
  ELSE Some(At(d.cards, d.visible_index + d.visible_count - 1))

DeckVisibleCards(d) ==
  Slice(d.cards, d.visible_index, d.visible_index + d.visible_count)

DeckWasteCards(d) == Slice(d.cards, 0, d.visible_index)

DeckRemainingCards(d) ==
  SliceFrom(d.cards, Min(d.visible_index + d.visible_count, Len(d.cards)))

\* DeckPop, but removing the first visible card instead of the top one
DeckPop_RemovesFirstVisible(d) ==
  IF d.visible_count = 0
  THEN [deck |-> d, ret |-> None]
  ELSE LET count == d.visible_count - 1 IN
       [deck |-> [d EXCEPT !.visible_count = count,
                           !.cards = Remove(d.cards, d.visible_index)],
        ret |-> Some(At(d.cards, d.visible_index + count))]

DeckPop(d) ==
  IF d.visible_count = 0
  THEN [deck |-> d, ret |-> None]
  ELSE LET count == d.visible_count - 1 IN
       [deck |-> [d EXCEPT !.visible_count = count,
                           !.cards = Remove(d.cards, d.visible_index + count)],
        ret |-> Some(At(d.cards, d.visible_index + count))]

\* DeckDraw that always exposes draw_count cards, even when fewer remain
DeckDraw_NoClamp(d) ==
  LET index == d.visible_index + d.visible_count IN
  IF index >= Len(d.cards)
  THEN [d EXCEPT !.visible_index = 0, !.visible_count = 0]
  ELSE [d EXCEPT !.visible_index = index, !.visible_count = d.draw_count]

\* DeckDraw going from the last window straight to the first one again
DeckDraw_SkipsEmptyWindow(d) ==
  LET index == d.visible_index + d.visible_count IN
  IF index >= Len(d.cards)
  THEN [d EXCEPT !.visible_index = 0,
                 !.visible_count = Min(d.draw_count, Len(d.cards))]
  ELSE [d EXCEPT !.visible_index = index,
                 !.visible_count = Min(d.draw_count, Len(d.cards) - index)]

\* DeckDraw stepping over a whole window of draw_count cards, even if pops
\* have shortened the one on show
DeckDraw_FullStride(d) ==
  LET index == d.visible_index
                 + (IF d.visible_count = 0 THEN 0 ELSE d.draw_count)
  IN IF index >= Len(d.cards)
     THEN [d EXCEPT !.visible_index = 0, !.visible_count = 0]
     ELSE [d EXCEPT !.visible_index = index,
                    !.visible_count = Min(d.draw_count, Len(d.cards) - index)]

DeckDraw(d) ==
  LET index == d.visible_index + d.visible_count IN
  IF index >= Len(d.cards)
  THEN [d EXCEPT !.visible_index = 0, !.visible_count = 0]
  ELSE [d EXCEPT !.visible_index = index,
                 !.visible_count = Min(d.draw_count, Len(d.cards) - index)]

(***************************************************************************)
(* Pile                                                                    *)
(***************************************************************************)
PileNew == [visible_cards |-> <<>>, hidden_cards |-> <<>>]

\* the assertions of Pile::from without those on the order of visible
PileFromValid_AnyOrder(hidden, visible) ==
  /\ Len(hidden) = 0 \/ Len(visible) > 0
  /\ Len(hidden) <= 6
  /\ Distinct(visible \o hidden)

\* the assertions of Pile::from
PileFromValid(hidden, visible) ==
  /\ Len(hidden) = 0 \/ Len(visible) > 0
  /\ Len(hidden) <= 6
  /\ Distinct(visible \o hidden)
  /\ \A i \in 1..(Len(visible) - 1) :
       /\ ColorOther(CardColor(visible[i])) = CardColor(visible[i + 1])
       /\ rank_index(visible[i].rank) >= 1
       /\ rank_index(visible[i].rank) - 1 = rank_index(visible[i + 1].rank)

PileFrom(hidden, visible) ==
  [visible_cards |-> visible, hidden_cards |-> hidden]

\* the call Pile::from(hidden, visible): a Pile, or a panic from one of its
\* assertions
PileFromCall(hidden, visible) ==
  IF PileFromValid(hidden, visible)
  THEN [pile |-> PileFrom(hidden, visible), ret |-> Constructed]
  ELSE [pile |-> <<>>, ret |-> Panic]

PileTop(p) ==
  IF Len(p.visible_cards) = 0 THEN None
  ELSE Some(p.visible_cards[Len(p.visible_cards)])

PileLen(p) == Len(p.visible_cards) + Len(p.hidden_cards)

PileIsEmpty(p) == Len(p.visible_cards) = 0

PileReset(p, cs) ==
  [hidden_cards |-> IF Len(cs) > 1 THEN Slice(cs, 0, Len(cs) - 1) ELSE <<>>,
   visible_cards |-> IF Len(cs) > 0 THEN <<cs[Len(cs)]>> ELSE <<>>]

\* PileNextCard asking for the rank of the top card instead of the one below
PileNextCard_SameRank(p) ==
  IF Len(p.visible_cards) = 0
  THEN Some(<<None, "King">>)
  ELSE LET card == p.visible_cards[Len(p.visible_cards)]
           i == rank_index(card.rank)
       IN IF i = 0 THEN None
          ELSE Some(<<Some(ColorOther(CardColor(card))), RANKS[i]>>)

\* Option<(Option<Color>, Rank)>
PileNextCard(p) ==
  IF Len(p.visible_cards) = 0
  THEN Some(<<None, "King">>)
  ELSE LET card == p.visible_cards[Len(p.visible_cards)]
           i == rank_index(card.rank)
       IN IF i = 0 THEN None
          ELSE Some(<<Some(ColorOther(CardColor(card))), RANKS[i - 1]>>)

\* PileCanPush comparing the rank only
PileCanPush_IgnoresColor(p, card) ==
  LET next == PileNextCard(p) IN
  IF next = None THEN Err("Capacity")
  ELSE IF card.rank = next[1][2] THEN Ok ELSE Err("InvalidCard")

\* PileCanPush reporting InvalidCard where the pile is at its floor
PileCanPush_NoCapacity(p, card) ==
  LET next == PileNextCard(p) IN
  IF next = None THEN Err("InvalidCard")
  ELSE LET color == next[1][1]
           rank == next[1][2]
       IN IF color # None
          THEN IF CardColor(card) = color[1] /\ card.rank = rank
               THEN Ok ELSE Err("InvalidCard")
          ELSE IF card.rank = rank THEN Ok ELSE Err("InvalidCard")

PileCanPush(p, card) ==
  LET next == PileNextCard(p) IN
  IF next = None THEN Err("Capacity")
  ELSE LET color == next[1][1]
           rank == next[1][2]
       IN IF color # None
          THEN IF CardColor(card) = color[1] /\ card.rank = rank
               THEN Ok ELSE Err("InvalidCard")
          ELSE IF card.rank = rank THEN Ok ELSE Err("InvalidCard")

\* PilePush, but appending the card before looking at the result of can_push
PilePush_AppendsAnyway(p, card) ==
  [pile |-> [p EXCEPT !.visible_cards = Append(@, card)],
   ret |-> PileCanPush(p, card)]

PilePush(p, card) ==
  LET res == PileCanPush(p, card) IN
  [pile |-> IF res = Ok
            THEN [p EXCEPT !.visible_cards = Append(@, card)]
            ELSE p,
   ret |-> res]

\* PileCheckVisible that never turns a hidden card face up
PileCheckVisible_NeverReveals(p) == p

\* PileCheckVisible turning up the first (bottom) hidden card instead of the last
PileCheckVisible_RevealsFirstHidden(p) ==
  IF Len(p.visible_cards) = 0 /\ Len(p.hidden_cards) > 0
  THEN [visible_cards |-> <<p.hidden_cards[1]>>,
        hidden_cards |-> SubSeq(p.hidden_cards, 2, Len(p.hidden_cards))]
  ELSE p

PileCheckVisible(p) ==
  IF Len(p.visible_cards) = 0 /\ Len(p.hidden_cards) > 0
  THEN [visible_cards |-> <<p.hidden_cards[Len(p.hidden_cards)]>>,
        hidden_cards |-> SubSeq(p.hidden_cards, 1, Len(p.hidden_cards) - 1)]
  ELSE p

\* PilePop without the call of check_visible
PilePop_NoReveal(p) ==
  IF Len(p.visible_cards) = 0
  THEN [pile |-> p, ret |-> None]
  ELSE [pile |-> [p EXCEPT !.visible_cards = SubSeq(@, 1, Len(@) - 1)],
        ret |-> Some(p.visible_cards[Len(p.visible_cards)])]

PilePop(p) ==
  IF Len(p.visible_cards) = 0
  THEN [pile |-> p, ret |-> None]
  ELSE [pile |-> PileCheckVisible(
                   [p EXCEPT !.visible_cards = SubSeq(@, 1, Len(@) - 1)]),
        ret |-> Some(p.visible_cards[Len(p.visible_cards)])]

\* iter().position(|c| target.can_push(*c).is_ok()), 0-based, None if absent
PileMovePosition(p, target) ==
  LET hits == {i \in 0..(Len(p.visible_cards) - 1) :
                 PileCanPush(target, At(p.visible_cards, i)) = Ok}
  IN IF hits = {} THEN None
     ELSE Some(CHOOSE i \in hits : \A j \in hits : i <= j)

\* PileMoveTo moving the cards one at a time from the top, which reverses them
PileMoveTo_Reversed(p, target) ==
  LET pos == PileMovePosition(p, target) IN
  IF pos = None
  THEN [source |-> p, target |-> target, ret |-> Err("InvalidMove")]
  ELSE LET index == pos[1]
           taken == SliceFrom(p.visible_cards, index)
       IN [source |-> PileCheckVisible(
                        [p EXCEPT !.visible_cards = Slice(@, 0, index)]),
           target |-> [target EXCEPT !.visible_cards =
                         @ \o [n \in 1..Len(taken) |->
                                 taken[Len(taken) + 1 - n]]],
           ret |-> Ok]

\* PileMoveTo that hands back the target's own refusal of the source's top card
PileMoveTo_PassesPileError(p, target) ==
  LET pos == PileMovePosition(p, target) IN
  IF pos = None
  THEN [source |-> p, target |-> target,
        ret |-> IF Len(p.visible_cards) = 0
                THEN Err("InvalidCard")
                ELSE PileCanPush(target, p.visible_cards[Len(p.visible_cards)])]
  ELSE LET index == pos[1] IN
       [source |-> PileCheckVisible(
                     [p EXCEPT !.visible_cards = Slice(@, 0, index)]),
        target |-> [target EXCEPT !.visible_cards =
                      @ \o SliceFrom(p.visible_cards, index)],
        ret |-> Ok]

PileMoveTo(p, target) ==
  LET pos == PileMovePosition(p, target) IN
  IF pos = None
  THEN [source |-> p, target |-> target, ret |-> Err("InvalidMove")]
  ELSE LET index == pos[1] IN
       [source |-> PileCheckVisible(
                     [p EXCEPT !.visible_cards = Slice(@, 0, index)]),
        target |-> [target EXCEPT !.visible_cards =
                      @ \o SliceFrom(p.visible_cards, index)],
        ret |-> Ok]

(***************************************************************************)
(* Foundation                                                              *)
(***************************************************************************)
FoundationNew(suit) == [suit |-> suit, current_rank_index |-> None]

FoundationFrom(suit, rank) ==
  [suit |-> suit,
   current_rank_index |->
     IF rank = None THEN None ELSE Some(rank_index(rank[1]))]

FoundationNewFull(suit) == FoundationFrom(suit, Some("King"))

FoundationTop(f) ==
  IF f.current_rank_index = None THEN None
  ELSE Some(Card(f.suit, RANKS[f.current_rank_index[1]]))

FoundationCards(f) ==
  IF f.current_rank_index = None THEN <<>>
  ELSE [n \in 1..(f.current_rank_index[1] + 1) |-> Card(f.suit, RANKS[n - 1])]

FoundationIsFull(f) == f.current_rank_index = Some(RANKS_len - 1)

FoundationIsEmpty(f) == f.current_rank_index = None

FoundationNextRank(f) ==
  IF f.current_rank_index = None THEN Some(RANKS[0])
  ELSE IF f.current_rank_index[1] = RANKS_len - 1 THEN None
  ELSE Some(RANKS[f.current_rank_index[1] + 1])

FoundationNextCard(f) ==
  IF FoundationNextRank(f) = None THEN None
  ELSE Some(Card(f.suit, FoundationNextRank(f)[1]))

\* FoundationPush with the King test off by one: a full foundation advances
FoundationPush_PastKing(f) ==
  IF f.current_rank_index = None
  THEN [foundation |-> [f EXCEPT !.current_rank_index = Some(0)],
        ret |-> Some(Card(f.suit, RANKS[0]))]
  ELSE LET i == f.current_rank_index[1] IN
       IF i = RANKS_len
       THEN [foundation |-> f, ret |-> None]
       ELSE [foundation |-> [f EXCEPT !.current_rank_index = Some(i + 1)],
             ret |-> Some(Card(f.suit, RANKS[i]))]

FoundationPush(f) ==
  IF f.current_rank_index = None
  THEN [foundation |-> [f EXCEPT !.current_rank_index = Some(0)],
        ret |-> Some(Card(f.suit, RANKS[0]))]
  ELSE LET i == f.current_rank_index[1] IN
       IF i = RANKS_len - 1
       THEN [foundation |-> f, ret |-> None]
       ELSE [foundation |-> [f EXCEPT !.current_rank_index = Some(i + 1)],
             ret |-> Some(Card(f.suit, RANKS[i]))]

\* FoundationClear leaving the foundation as it is
FoundationClear_KeepsCards(f) == f

FoundationClear(f) == [f EXCEPT !.current_rank_index = None]

\* FoundationPop without the Some(0) arm: the Ace never leaves
FoundationPop_KeepsAce(f) ==
  IF f.current_rank_index = None
  THEN [foundation |-> f, ret |-> None]
  ELSE LET i == f.current_rank_index[1] IN
       IF i = 0
       THEN [foundation |-> f, ret |-> Some(Card(f.suit, RANKS[0]))]
       ELSE [foundation |-> [f EXCEPT !.current_rank_index = Some(i - 1)],
             ret |-> Some(Card(f.suit, RANKS[i - 1]))]

FoundationPop(f) ==
  IF f.current_rank_index = None
  THEN [foundation |-> f, ret |-> None]
  ELSE LET i == f.current_rank_index[1] IN
       IF i = 0
       THEN [foundation |-> [f EXCEPT !.current_rank_index = None],
             ret |-> Some(Card(f.suit, RANKS[0]))]
       ELSE [foundation |-> [f EXCEPT !.current_rank_index = Some(i - 1)],
             ret |-> Some(Card(f.suit, RANKS[i - 1]))]

(***************************************************************************)
(* KlondikeSolitaireGame                                                   *)
(*                                                                         *)
(* A game value is the record [cards, foundations, piles, deck]; the       *)
(* variables of the same names hold the game under play.                   *)
(***************************************************************************)
PileIndex == 0..(NUM_PILES - 1)
FoundationSlot == 0..(NUM_FOUNDATIONS - 1)

SourceDeck == <<"Deck">>
SourceFoundation(suit) == <<"Foundation", suit>>
SourcePile(i) == <<"Pile", i>>
TargetFoundation == <<"Foundation">>
TargetPile(i) == <<"Pile", i>>

\* Pile carries a u8: the seven indices of the piles and, for the values
\* that are no index of a pile, the first one (7)
MoveSource ==
  {SourceDeck} \cup {SourceFoundation(s) : s \in Suit}
               \cup {SourcePile(i) : i \in 0..NUM_PILES}

MoveTarget == {TargetFoundation} \cup {TargetPile(i) : i \in 0..NUM_PILES}

foundation_index(suit) ==
  CASE suit = "Hearts" -> 0
    [] suit = "Diamonds" -> 1
    [] suit = "Spades" -> 2
    [] suit = "Clubs" -> 3

foundation(g, suit) == g.foundations[foundation_index(suit)]

\* foundations.sort_by_key(|f| foundation_index(f.suit())): a stable sort
SortFoundations(fs) ==
  LET before(j, i) ==
        \/ foundation_index(fs[j].suit) < foundation_index(fs[i].suit)
        \/ /\ foundation_index(fs[j].suit) = foundation_index(fs[i].suit)
           /\ j < i
      place(i) == Cardinality({j \in FoundationSlot : before(j, i)})
  IN [k \in FoundationSlot |-> fs[CHOOSE i \in FoundationSlot : place(i) = k]]

\* GameReset dealing one card more to every pile: pile i gets i + 2 cards
GameReset_OneMoreEach(g) ==
  [cards |-> g.cards,
   foundations |-> [k \in FoundationSlot |-> FoundationClear(g.foundations[k])],
   piles |->
     [i \in PileIndex |->
        PileReset(g.piles[i],
                  Slice(g.cards, (i * (i + 3)) \div 2, ((i + 1) * (i + 4)) \div 2))],
   deck |-> DeckReset(g.deck, SliceFrom(g.cards, 35))]

GameReset(g) ==
  [cards |-> g.cards,
   foundations |-> [k \in FoundationSlot |-> FoundationClear(g.foundations[k])],
   piles |->
     [i \in PileIndex |->
        CASE i = 0 -> PileReset(g.piles[0], Slice(g.cards, 0, 1))
          [] i = 1 -> PileReset(g.piles[1], Slice(g.cards, 1, 3))
          [] i = 2 -> PileReset(g.piles[2], Slice(g.cards, 3, 6))
          [] i = 3 -> PileReset(g.piles[3], Slice(g.cards, 6, 10))
          [] i = 4 -> PileReset(g.piles[4], Slice(g.cards, 10, 15))
          [] i = 5 -> PileReset(g.piles[5], Slice(g.cards, 15, 21))
          [] i = 6 -> PileReset(g.piles[6], Slice(g.cards, 21, 28))],
   deck |-> DeckReset(g.deck, SliceFrom(g.cards, 28))]

\* shuffle is the injected permutation of the standard deck
GameNewShuffle(draw_count, shuffle) ==
  GameReset(
    [cards |-> [n \in 1..STANDARD_DECK_SIZE |-> new_standard_deck[shuffle[n]]],
     foundations |->
       [k \in FoundationSlot |->
          FoundationNew(At(<<"Hearts", "Diamonds", "Spades", "Clubs">>, k))],
     piles |-> [i \in PileIndex |-> PileNew],
     deck |-> DeckNew(draw_count)])

\* the cards KlondikeSolitaireGame::from collects, in the order it walks the zones
SeqConcat(f, lo, hi) ==
  LET cat[k \in (lo - 1)..hi] == IF k < lo THEN <<>> ELSE cat[k - 1] \o f[k]
  IN cat[hi]

GameFromCards(d, fs, ps) ==
  DeckWasteCards(d) \o DeckVisibleCards(d) \o DeckRemainingCards(d)
    \o SeqConcat([k \in FoundationSlot |-> FoundationCards(fs[k])],
                 0, NUM_FOUNDATIONS - 1)
    \o SeqConcat([i \in PileIndex |->
                    ps[i].hidden_cards \o ps[i].visible_cards],
                 0, NUM_PILES - 1)

\* GameFromValid without the assertion on the number of hidden cards
GameFromValid_NoHiddenCheck(d, fs, ps) ==
  /\ Distinct(GameFromCards(d, fs, ps))
  /\ Len(GameFromCards(d, fs, ps)) = STANDARD_DECK_SIZE

\* the assertions of KlondikeSolitaireGame::from
GameFromValid(d, fs, ps) ==
  /\ Distinct(GameFromCards(d, fs, ps))
  /\ \A i \in PileIndex : Len(ps[i].hidden_cards) <= i
  /\ Len(GameFromCards(d, fs, ps)) = STANDARD_DECK_SIZE

GameFrom(d, fs, ps) ==
  [cards |-> GameFromCards(d, fs, ps),
   deck |-> d,
   foundations |-> SortFoundations(fs),
   piles |-> ps]

\* KlondikeSolitaireGame::from as called: the game, or a panic when an
\* assertion fails
GameFromCall(d, fs, ps) ==
  IF GameFromValid(d, fs, ps)
  THEN [game |-> GameFrom(d, fs, ps), ret |-> Constructed]
  ELSE [game |-> <<>>, ret |-> Panic]

\* GameIsClear that is satisfied with one full foundation
GameIsClear_AnyFull(g) ==
  \E k \in FoundationSlot : FoundationIsFull(g.foundations[k])

\* the value `clear` of is_clear()
GameIsClear(g) ==
  \A k \in FoundationSlot : FoundationIsFull(g.foundations[k])

\* the two debug assertions is_clear() makes when `clear` is true
GameIsClearAsserts(g) ==
  /\ \A i \in PileIndex : PileIsEmpty(g.piles[i])
  /\ DeckIsEmpty(g.deck)

\* is_clear() as called: the flag, or a panic when an assertion fails
GameIsClearCall(g) ==
  IF GameIsClear(g) /\ ~GameIsClearAsserts(g) THEN Panic
  ELSE Bool(GameIsClear(g))

GameDraw(g) == [g EXCEPT !.deck = DeckDraw(g.deck)]

\* the match arms of move_cards; each returns [game, ret]
\* MoveDeckToFoundation without the comparison against next_card()
MoveDeckToFoundation_Unchecked(g) ==
  LET top == DeckTop(g.deck) IN
  IF top = None THEN [game |-> g, ret |-> Err("InvalidMove")]
  ELSE LET k == foundation_index(top[1].suit) IN
       [game |-> [g EXCEPT !.foundations[k] = FoundationPush(@).foundation,
                           !.deck = DeckPop(@).deck],
        ret |-> Ok]

MoveDeckToFoundation(g) ==
  LET top == DeckTop(g.deck) IN
  IF top = None THEN [game |-> g, ret |-> Err("InvalidMove")]
  ELSE LET visible_card == top[1]
           k == foundation_index(visible_card.suit)
       IN IF FoundationNextCard(g.foundations[k]) # Some(visible_card)
          THEN [game |-> g, ret |-> Err("InvalidMove")]
          ELSE [game |->
                  [g EXCEPT !.foundations[k] = FoundationPush(@).foundation,
                            !.deck = DeckPop(@).deck],
                ret |-> Ok]

\* MoveDeckToPile leaving the card it pushed on the deck
MoveDeckToPile_KeepsDeckCard(g, pile_index) ==
  LET top == DeckTop(g.deck) IN
  IF ~(pile_index < NUM_PILES) THEN [game |-> g, ret |-> Panic]
  ELSE IF top = None THEN [game |-> g, ret |-> Err("InvalidMove")]
  ELSE LET pushed == PilePush(g.piles[pile_index], top[1]) IN
       IF pushed.ret = Ok
       THEN [game |-> [g EXCEPT !.piles[pile_index] = pushed.pile],
             ret |-> Ok]
       ELSE [game |-> [g EXCEPT !.piles[pile_index] = pushed.pile],
             ret |-> Err("InvalidMove")]

\* MoveDeckToPile handing back the pile's own refusal
MoveDeckToPile_PassesPileError(g, pile_index) ==
  LET top == DeckTop(g.deck) IN
  IF ~(pile_index < NUM_PILES) THEN [game |-> g, ret |-> Panic]
  ELSE IF top = None THEN [game |-> g, ret |-> Err("InvalidMove")]
  ELSE LET pushed == PilePush(g.piles[pile_index], top[1]) IN
       IF pushed.ret = Ok
       THEN [game |-> [g EXCEPT !.piles[pile_index] = pushed.pile,
                                !.deck = DeckPop(@).deck],
             ret |-> Ok]
       ELSE [game |-> [g EXCEPT !.piles[pile_index] = pushed.pile],
             ret |-> pushed.ret]

MoveDeckToPile(g, pile_index) ==
  LET top == DeckTop(g.deck) IN
  IF ~(pile_index < NUM_PILES) THEN [game |-> g, ret |-> Panic]
  ELSE IF top = None THEN [game |-> g, ret |-> Err("InvalidMove")]
  ELSE LET pushed == PilePush(g.piles[pile_index], top[1]) IN
       IF pushed.ret = Ok
       THEN [game |-> [g EXCEPT !.piles[pile_index] = pushed.pile,
                                !.deck = DeckPop(@).deck],
             ret |-> Ok]
       ELSE [game |-> [g EXCEPT !.piles[pile_index] = pushed.pile],
             ret |-> Err("InvalidMove")]

MoveFoundationToPile(g, suit, pile_index) ==
  LET top == FoundationTop(foundation(g, suit)) IN
  IF ~(pile_index < NUM_PILES) THEN [game |-> g, ret |-> Panic]
  ELSE IF top = None THEN [game |-> g, ret |-> Err("InvalidMove")]
  ELSE LET pushed == PilePush(g.piles[pile_index], top[1]) IN
       IF pushed.ret = Ok
       THEN [game |->
               [g EXCEPT !.piles[pile_index] = pushed.pile,
                         !.foundations[foundation_index(suit)] =
                            FoundationPop(@).foundation],
             ret |-> Ok]
       ELSE [game |-> [g EXCEPT !.piles[pile_index] = pushed.pile],
             ret |-> Err("InvalidMove")]

\* MovePileToPile without the test for equal indices
MovePileToPile_NoSelfGuard(g, source_pile_index, target_pile_index) ==
  IF ~(source_pile_index < NUM_PILES) \/ ~(target_pile_index < NUM_PILES)
  THEN [game |-> g, ret |-> Panic]
  ELSE
  LET after == PileMoveTo(g.piles[source_pile_index],
                          g.piles[target_pile_index])
  IN [game |-> [g EXCEPT !.piles[source_pile_index] = after.source,
                         !.piles[target_pile_index] = after.target],
      ret |-> after.ret]

\* MovePileToPile testing for equal indices before it asserts their range
MovePileToPile_SelfGuardFirst(g, source_pile_index, target_pile_index) ==
  IF source_pile_index = target_pile_index
  THEN [game |-> g, ret |-> Ok]
  ELSE IF ~(source_pile_index < NUM_PILES) \/ ~(target_pile_index < NUM_PILES)
  THEN [game |-> g, ret |-> Panic]
  ELSE LET after == PileMoveTo(g.piles[source_pile_index],
                               g.piles[target_pile_index])
       IN [game |-> [g EXCEPT !.piles[source_pile_index] = after.source,
                              !.piles[target_pile_index] = after.target],
           ret |-> after.ret]

MovePileToPile(g, source_pile_index, target_pile_index) ==
  IF ~(source_pile_index < NUM_PILES) \/ ~(target_pile_index < NUM_PILES)
  THEN [game |-> g, ret |-> Panic]
  ELSE IF source_pile_index = target_pile_index
  THEN [game |-> g, ret |-> Ok]
  ELSE LET after == PileMoveTo(g.piles[source_pile_index],
                               g.piles[target_pile_index])
       IN [game |-> [g EXCEPT !.piles[source_pile_index] = after.source,
                              !.piles[target_pile_index] = after.target],
           ret |-> after.ret]

MovePileToFoundation(g, pile_index) ==
  IF ~(pile_index < NUM_PILES) THEN [game |-> g, ret |-> Panic]
  ELSE
  LET top == PileTop(g.piles[pile_index]) IN
  IF top = None THEN [game |-> g, ret |-> Err("InvalidMove")]
  ELSE LET visible_card == top[1]
           k == foundation_index(visible_card.suit)
       IN IF FoundationNextCard(g.foundations[k]) # Some(visible_card)
          THEN [game |-> g, ret |-> Err("InvalidMove")]
          ELSE [game |->
                  [g EXCEPT !.foundations[k] = FoundationPush(@).foundation,
                            !.piles[pile_index] = PilePop(@).pile],
                ret |-> Ok]

move_cards(g, source, target) ==
  CASE source[1] = "Deck" /\ target[1] = "Foundation" ->
         MoveDeckToFoundation(g)
    [] source[1] = "Deck" /\ target[1] = "Pile" ->
         MoveDeckToPile(g, target[2])
    [] source[1] = "Foundation" /\ target[1] = "Foundation" ->
         [game |-> g, ret |-> Ok]
    [] source[1] = "Foundation" /\ target[1] = "Pile" ->
         MoveFoundationToPile(g, source[2], target[2])
    [] source[1] = "Pile" /\ target[1] = "Pile" ->
         MovePileToPile(g, source[2], target[2])
    [] source[1] = "Pile" /\ target[1] = "Foundation" ->
         MovePileToFoundation(g, source[2])

(***************************************************************************)
(* Initial games.  new_shuffle is given one of a few injected shuffles (a  *)
(* shuffle is any permutation of the 52 cards); from is given zones of     *)
(* games in progress.                                                       *)
(***************************************************************************)
\* the permutation n |-> k*n (mod 52), k coprime to 52; 1 leaves the deck as built
ShufflePerm(k) ==
  [n \in 1..STANDARD_DECK_SIZE |-> (((n - 1) * k) % STANDARD_DECK_SIZE) + 1]

ShuffleKeys == {1, 5, 11}

DrawCounts == {1, 3}

\* the standard cards that are in none of the given sequences, in deck order
CardsNotIn(used) ==
  SelectSeq(new_standard_deck, LAMBDA c : c \notin used)

\* a game in progress: every kind of move has a legal instance within a call or two
MidGameNamed ==
  <<Card("Diamonds", "7"), Card("Spades", "2"),
    Card("Clubs", "9"), Card("Diamonds", "8"), Card("Hearts", "4"),
    Card("Diamonds", "King"), Card("Hearts", "9"), Card("Spades", "8"),
    Card("Hearts", "7"), Card("Clubs", "6"),
    Card("Spades", "3"), Card("Diamonds", "Jack"), Card("Clubs", "8"),
    Card("Spades", "10"),
    Card("Spades", "King"), Card("Hearts", "Queen"), Card("Clubs", "Jack"),
    Card("Diamonds", "9"), Card("Diamonds", "2")>>

MidGameFoundations ==
  [k \in FoundationSlot |->
     At(<<FoundationFrom("Clubs", Some("5")),
          FoundationFrom("Hearts", Some("3")),
          FoundationFrom("Spades", None),
          FoundationFrom("Diamonds", Some("Ace"))>>, k)]

MidGameRest ==
  CardsNotIn(Range(MidGameNamed)
             \cup UNION {Range(FoundationCards(MidGameFoundations[k])) :
                           k \in FoundationSlot})

MidGamePiles ==
  [i \in PileIndex |->
     At(<<PileFrom(<<>>, <<>>),
          PileFrom(<<Card("Diamonds", "7")>>, <<Card("Spades", "2")>>),
          PileFrom(<<Card("Clubs", "9"), Card("Diamonds", "8")>>,
                   <<Card("Hearts", "4")>>),
          PileFrom(<<Card("Diamonds", "King")>>,
                   <<Card("Hearts", "9"), Card("Spades", "8"),
                     Card("Hearts", "7"), Card("Clubs", "6")>>),
          PileFrom(<<Card("Spades", "3"), Card("Diamonds", "Jack")>>,
                   <<Card("Clubs", "8")>>),
          PileFrom(Slice(MidGameRest, 0, 2), <<Card("Spades", "10")>>),
          PileFrom(Slice(MidGameRest, 2, 5),
                   <<Card("Spades", "King"), Card("Hearts", "Queen"),
                     Card("Clubs", "Jack")>>)>>, i)]

MidGameDeck(draw_count) ==
  DeckFrom(draw_count,
           Slice(MidGameRest, 5, 8),
           IF draw_count >= 3
           THEN <<At(MidGameRest, 8), Card("Diamonds", "9"),
                  Card("Diamonds", "2")>>
           ELSE <<Card("Diamonds", "2")>>,
           IF draw_count >= 3
           THEN SliceFrom(MidGameRest, 9)
           ELSE <<Card("Diamonds", "9")>> \o SliceFrom(MidGameRest, 8))

\* one card short of a cleared table
EndGameFoundations ==
  [k \in FoundationSlot |->
     At(<<FoundationNewFull("Hearts"), FoundationNewFull("Diamonds"),
          FoundationNewFull("Spades"),
          FoundationFrom("Clubs", Some("Queen"))>>, k)]

EndGamePiles ==
  [i \in PileIndex |->
     IF i = 0 THEN PileFrom(<<>>, <<Card("Clubs", "King")>>)
     ELSE PileFrom(<<>>, <<>>)]

\* a fresh deal handed over with two Hearts foundations and no Diamonds one
\* (from looks at the foundations' cards, not at their suits)
TwinRest ==
  CardsNotIn({Card("Diamonds", "Ace"), Card("Hearts", "Ace")})

TwinFoundations ==
  [k \in FoundationSlot |->
     At(<<FoundationNew("Clubs"), FoundationNew("Hearts"),
          FoundationNew("Spades"), FoundationNew("Hearts")>>, k)]

TwinPiles ==
  [i \in PileIndex |->
     CASE i = 0 -> PileFrom(<<>>, <<Card("Diamonds", "Ace")>>)
       [] i = 1 -> PileFrom(Slice(TwinRest, 0, 1), <<Card("Hearts", "Ace")>>)
       [] i = 2 -> PileFrom(Slice(TwinRest, 1, 3), Slice(TwinRest, 3, 4))
       [] i = 3 -> PileFrom(Slice(TwinRest, 4, 7), Slice(TwinRest, 7, 8))
       [] i = 4 -> PileFrom(Slice(TwinRest, 8, 12), Slice(TwinRest, 12, 13))
       [] i = 5 -> PileFrom(Slice(TwinRest, 13, 18), Slice(TwinRest, 18, 19))
       [] i = 6 -> PileFrom(Slice(TwinRest, 19, 25), Slice(TwinRest, 25, 26))]

TwinDeck == DeckFrom(1, <<>>, <<>>, SliceFrom(TwinRest, 26))

\* the arguments handed to KlondikeSolitaireGame::from: a Deck, four
\* Foundations and seven Piles
FromInputs ==
  {<<MidGameDeck(dc), MidGameFoundations, MidGamePiles>> : dc \in DrawCounts}
    \cup {<<DeckFrom(1, <<>>, <<>>, <<>>), EndGameFoundations, EndGamePiles>>,
          <<TwinDeck, TwinFoundations, TwinPiles>>}

\* the Deck and the Piles exist (their own from accepted them) and
\* KlondikeSolitaireGame::from accepts the whole
FromInputValid(d, fs, ps) ==
  /\ DeckFromValid(d.draw_count, DeckWasteCards(d), DeckVisibleCards(d),
                   DeckRemainingCards(d))
  /\ \A i \in PileIndex :
       PileFromValid(ps[i].hidden_cards, ps[i].visible_cards)
  /\ GameFromValid(d, fs, ps)

InitialGames ==
  {GameNewShuffle(dc, ShufflePerm(k)) : dc \in DrawCounts, k \in ShuffleKeys}
    \cup {GameFrom(in[1], in[2], in[3]) :
            in \in {x \in FromInputs : FromInputValid(x[1], x[2], x[3])}}

(***************************************************************************)
(* The state machine: every public call on the game is one step.           *)
(***************************************************************************)
Game ==
  [cards |-> cards, foundations |-> foundations, piles |-> piles, deck |-> deck]

SetGame(g) ==
  /\ cards' = g.cards
  /\ foundations' = g.foundations
  /\ piles' = g.piles
  /\ deck' = g.deck

\* A panic ends the use of the game: no call follows one.

\* the arm of move_cards that a (source, target) pair selects
MoveKind(source, target) ==
  <<"move_cards", source[1], target[1]>>

Init ==
  /\ NoRun
  /\ \E g \in InitialGames :
       /\ cards = g.cards
       /\ foundations = g.foundations
       /\ piles = g.piles
       /\ deck = g.deck
  /\ op = <<"new">>
  /\ result = Unit
  /\ steps = 0

MoveCards(source, target) ==
  /\ UNCHANGED runVars
  /\ steps < MaxSteps
  /\ result # Panic
  /\ steps' = steps + 1
  /\ op' = MoveKind(source, target)
  /\ LET after == move_cards(Game, source, target) IN
       /\ result' = after.ret
       /\ SetGame(after.game)

Draw ==
  /\ UNCHANGED runVars
  /\ steps < MaxSteps
  /\ result # Panic
  /\ SetGame(GameDraw(Game))
  /\ op' = <<"draw">>
  /\ result' = Unit
  /\ steps' = steps + 1

Reset ==
  /\ UNCHANGED runVars
  /\ steps < MaxSteps
  /\ result # Panic
  /\ SetGame(GameReset(Game))
  /\ op' = <<"reset">>
  /\ result' = Unit
  /\ steps' = steps + 1

IsClear ==
  /\ UNCHANGED runVars
  /\ steps < MaxSteps
  /\ result # Panic
  /\ op' = <<"is_clear">>
  /\ result' = GameIsClearCall(Game)
  /\ steps' = steps + 1
  /\ UNCHANGED <<cards, foundations, piles, deck>>

Next ==
  \/ \E source \in MoveSource, target \in MoveTarget : MoveCards(source, target)
  \/ Draw
  \/ Reset
  \/ IsClear

Spec == Init /\ [][Next]_vars

(***************************************************************************)
(* Properties of the game.                                                 *)
(***************************************************************************)
\* every card of every zone: deck regions, expanded foundations, piles
ZoneCards ==
  DeckWasteCards(deck) \o DeckVisibleCards(deck) \o DeckRemainingCards(deck)
    \o SeqConcat([k \in FoundationSlot |-> FoundationCards(foundations[k])],
                 0, NUM_FOUNDATIONS - 1)
    \o SeqConcat([i \in PileIndex |-> piles[i].hidden_cards], 0, NUM_PILES - 1)
    \o SeqConcat([i \in PileIndex |-> piles[i].visible_cards], 0, NUM_PILES - 1)

IsMove == op[1] = "move_cards"

\* C1 (card conservation): in every reachable game state the deck's waste,
\* visible and remaining regions, the expanded foundations and the piles'
\* hidden and visible regions hold exactly the 52 standard cards, each once.
C1_CardConservation ==
  /\ Len(ZoneCards) = STANDARD_DECK_SIZE
  /\ Range(ZoneCards) = Range(new_standard_deck)
  /\ Distinct(ZoneCards)

\* cards have left the deck and a pile for a foundation, and a later move failed
C1_Witness ==
  /\ IsMove /\ result.tag = "Err" /\ steps >= 3
  /\ Len(deck.cards) < Len(SliceFrom(cards, 28))
  /\ \E k \in FoundationSlot : Len(FoundationCards(foundations[k])) > 0
  /\ \E i \in PileIndex : Len(piles[i].visible_cards) > 1

\* C2 (move atomicity): a move_cards call that returns an error leaves the
\* deck, the four foundations and the seven piles exactly as they were.
C2_FailedMoveChangesNothing ==
  [][(op'[1] = "move_cards" /\ result'.tag = "Err")
       => (cards' = cards /\ foundations' = foundations
           /\ piles' = piles /\ deck' = deck)]_vars

\* a pile-to-pile move was rejected in a game where cards had already moved
C2_Witness ==
  /\ op = <<"move_cards", "Pile", "Pile">>
  /\ result = Err("InvalidMove")
  /\ \E i \in PileIndex : Len(piles[i].visible_cards) > 1

\* number of cards a foundation represents (0 when empty, 13 when full)
FoundationCount(f) ==
  IF f.current_rank_index = None THEN 0 ELSE f.current_rank_index[1] + 1

\* foundation k went from {Ace..r} to {Ace..r+1} by taking `card`; the others kept
FoundationTook(k, card) ==
  /\ foundations'[k].suit = foundations[k].suit
  /\ FoundationCount(foundations'[k]) = FoundationCount(foundations[k]) + 1
  /\ card = Card(foundations[k].suit, RANKS[FoundationCount(foundations[k])])
  /\ \A j \in FoundationSlot \ {k} : foundations'[j] = foundations[j]

\* the deck lost its top visible card and nothing else
DeckLostTop ==
  /\ DeckWasteCards(deck') = DeckWasteCards(deck)
  /\ DeckRemainingCards(deck') = DeckRemainingCards(deck)
  /\ DeckVisibleCards(deck') =
       SubSeq(DeckVisibleCards(deck), 1, Len(DeckVisibleCards(deck)) - 1)
  /\ deck'.draw_count = deck.draw_count

\* `card` is the next card of the foundation that foundation(card.suit) selects
IsNextOnItsFoundation(card) ==
  LET f == foundations[foundation_index(card.suit)] IN
  /\ f.suit = card.suit
  /\ rank_index(card.rank) = FoundationCount(f)

\* C6 (Deck -> Foundation): the move succeeds iff the deck has a top visible
\* card and that card is the next card of the foundation of its suit; on
\* success that foundation advances by one rank (to that card), that card
\* alone leaves the deck, and the piles and the other foundations are unchanged.
C6_DeckToFoundation ==
  [][MoveCards(SourceDeck, TargetFoundation) =>
       LET visible == DeckVisibleCards(deck) IN
       /\ result' = Ok <=>
            (Len(visible) > 0 /\ IsNextOnItsFoundation(visible[Len(visible)]))
       /\ result' = Ok =>
            /\ FoundationTook(foundation_index(visible[Len(visible)].suit),
                              visible[Len(visible)])
            /\ DeckLostTop
            /\ piles' = piles
            /\ cards' = cards]_vars

\* a Deck -> Foundation move has just succeeded with other visible cards left
C6_Witness ==
  /\ op = <<"move_cards", "Deck", "Foundation">>
  /\ result = Ok
  /\ deck.visible_count > 0
  /\ \E k \in FoundationSlot : FoundationCount(foundations[k]) > 1

\* the tableau rule: `card` may be placed on pile p
PileAccepts(p, card) ==
  LET v == p.visible_cards IN
  IF Len(v) = 0
  THEN card.rank = "King"
  ELSE /\ rank_index(v[Len(v)].rank) = rank_index(card.rank) + 1
       /\ CardColor(v[Len(v)]) # CardColor(card)

\* pile i lost its top card, revealing its last hidden card if that emptied
\* its visible cards; the other piles kept
PileLostTop(i) ==
  LET v == piles[i].visible_cards
      h == piles[i].hidden_cards
  IN /\ IF Len(v) = 1 /\ Len(h) > 0
        THEN /\ piles'[i].visible_cards = <<h[Len(h)]>>
             /\ piles'[i].hidden_cards = SubSeq(h, 1, Len(h) - 1)
        ELSE /\ piles'[i].visible_cards = SubSeq(v, 1, Len(v) - 1)
             /\ piles'[i].hidden_cards = h
     /\ \A j \in PileIndex \ {i} : piles'[j] = piles[j]

\* pile i got `card` as its new top; the other piles kept
PileGotTop(i, card) ==
  /\ piles'[i].visible_cards = Append(piles[i].visible_cards, card)
  /\ piles'[i].hidden_cards = piles[i].hidden_cards
  /\ \A j \in PileIndex \ {i} : piles'[j] = piles[j]

\* C7 (Pile(i) -> Foundation): the move succeeds iff pile i has a top visible
\* card and that card is the next card of the foundation of its suit; on
\* success that foundation advances by one rank, the card is popped from
\* pile i (revealing the top hidden card if the visible cards became empty),
\* and the deck and the other piles are unchanged.
C7_PileToFoundation ==
  [][\A i \in PileIndex :
       MoveCards(SourcePile(i), TargetFoundation) =>
         LET v == piles[i].visible_cards IN
         /\ result' = Ok <=> (Len(v) > 0 /\ IsNextOnItsFoundation(v[Len(v)]))
         /\ result' = Ok =>
              /\ FoundationTook(foundation_index(v[Len(v)].suit), v[Len(v)])
              /\ PileLostTop(i)
              /\ deck' = deck
              /\ cards' = cards]_vars

\* the 4 of hearts has just gone from pile 2 of the game in progress to its
\* foundation, and the 8 of diamonds under it was revealed
C7_Witness ==
  /\ op = <<"move_cards", "Pile", "Foundation">>
  /\ result = Ok
  /\ FoundationTop(foundations[0]) = Some(Card("Hearts", "4"))
  /\ piles[2].visible_cards = <<Card("Diamonds", "8")>>
  /\ piles[2].hidden_cards = <<Card("Clubs", "9")>>

\* C8 (Deck -> Pile(i)): the move succeeds iff the deck has a top visible
\* card and pile i accepts it; on success the card becomes the new top of
\* pile i and leaves the deck's visible region, and waste, remaining, the
\* foundations and the other piles are unchanged.
C8_DeckToPile ==
  [][\A i \in PileIndex :
       MoveCards(SourceDeck, TargetPile(i)) =>
         LET visible == DeckVisibleCards(deck) IN
         /\ result' = Ok <=>
              (Len(visible) > 0 /\ PileAccepts(piles[i], visible[Len(visible)]))
         /\ result' = Ok =>
              /\ PileGotTop(i, visible[Len(visible)])
              /\ DeckLostTop
              /\ foundations' = foundations
              /\ cards' = cards]_vars

\* the 9 of diamonds has just gone from the deck onto the 10 of spades of pile 5
C8_Witness ==
  /\ op = <<"move_cards", "Deck", "Pile">>
  /\ result = Ok
  /\ piles[5].visible_cards = <<Card("Spades", "10"), Card("Diamonds", "9")>>
  /\ Card("Diamonds", "9") \notin Range(deck.cards)

\* C9 (Foundation(s) -> Pile(i)): the move succeeds iff foundation s is not
\* empty and pile i accepts its top card; on success that card becomes the
\* new top of pile i and foundation s retreats by exactly one rank (to empty
\* if it held only the Ace), and the deck and everything else are unchanged.
C9_FoundationToPile ==
  [][\A s \in Suit, i \in PileIndex :
       MoveCards(SourceFoundation(s), TargetPile(i)) =>
         LET k == foundation_index(s)
             f == foundations[k]
             top == Card(f.suit, RANKS[FoundationCount(f) - 1])
         IN /\ result' = Ok <=>
                 (FoundationCount(f) > 0 /\ PileAccepts(piles[i], top))
            /\ result' = Ok =>
                 /\ PileGotTop(i, top)
                 /\ foundations'[k].suit = f.suit
                 /\ FoundationCount(foundations'[k]) = FoundationCount(f) - 1
                 /\ FoundationCount(f) = 1 =>
                      foundations'[k].current_rank_index = None
                 /\ \A j \in FoundationSlot \ {k} :
                      foundations'[j] = foundations[j]
                 /\ deck' = deck
                 /\ cards' = cards]_vars

\* the ace of diamonds, alone on its foundation, has just gone onto the 2 of
\* spades of pile 1, leaving the foundation empty
C9_Witness ==
  /\ op = <<"move_cards", "Foundation", "Pile">>
  /\ result = Ok
  /\ piles[1].visible_cards = <<Card("Spades", "2"), Card("Diamonds", "Ace")>>
  /\ FoundationIsEmpty(foundations[1])

\* the cards outside the foundations: deck and piles
TableCards ==
  Range(deck.cards)
    \cup UNION {Range(piles[i].hidden_cards) \cup Range(piles[i].visible_cards) :
                  i \in PileIndex}

\* what every foundation must look like in any state
FoundationShape(f) ==
  /\ FoundationCount(f) \in 0..RANKS_len
  /\ Range(FoundationCards(f)) =
       {c \in Range(new_standard_deck) :
          c.suit = f.suit /\ rank_index(c.rank) < FoundationCount(f)}
  /\ Len(FoundationCards(f)) = FoundationCount(f)
  /\ FoundationIsFull(f) <=> FoundationTop(f) = Some(Card(f.suit, "King"))
  /\ FoundationIsFull(f) =>
       FoundationPush(f) = [foundation |-> f, ret |-> None]

\* a foundation changes its suit never, and grows only by the one card that
\* is next in rank for its suit, which comes from the deck or a pile
FoundationStep(k) ==
  LET f == foundations[k] IN
  /\ foundations'[k].suit = f.suit
  /\ FoundationCount(foundations'[k]) > FoundationCount(f) =>
       /\ op'[1] = "move_cards"
       /\ FoundationCount(foundations'[k]) = FoundationCount(f) + 1
       /\ Card(f.suit, RANKS[FoundationCount(f)]) \in TableCards
       /\ Card(f.suit, RANKS[FoundationCount(f)]) \notin TableCards'

\* C5 (foundation monotonicity): through any sequence of game calls a card
\* enters a foundation only as the next rank of that foundation's suit, so
\* each foundation is always the gap-free set {Ace..current} of its suit; a
\* push on a full foundation returns none and changes nothing; is_full() is
\* true iff the current rank is King.
C5_FoundationMonotonic ==
  /\ [](\A k \in FoundationSlot : FoundationShape(foundations[k]))
  /\ [][\A k \in FoundationSlot : FoundationStep(k)]_vars

\* the king of clubs has just filled the last foundation
C5_Witness ==
  /\ op = <<"move_cards", "Pile", "Foundation">>
  /\ result = Ok
  /\ \A k \in FoundationSlot : FoundationIsFull(foundations[k])

\* no card of the visible cards of pile p may be placed on pile t
NoCardAccepted(p, t) ==
  \A n \in 1..Len(p.visible_cards) : ~PileAccepts(t, p.visible_cards[n])

\* C11 (no movable suffix): when the target accepts no card of the source's
\* visible cards (an empty source included), Pile::move_to returns
\* InvalidMove with both piles as they were, and move_cards(Pile(i), Pile(j))
\* with i # j returns InvalidMove and changes no pile.
C11_NoMovableSuffix ==
  /\ [](\A i, j \in PileIndex :
          (i # j /\ NoCardAccepted(piles[i], piles[j])) =>
            PileMoveTo(piles[i], piles[j]) =
              [source |-> piles[i], target |-> piles[j],
               ret |-> Err("InvalidMove")])
  /\ [][op' = <<"move_cards", "Pile", "Pile">> =>
          \/ result' = Err("InvalidMove") /\ piles' = piles
          \/ \A i, j \in PileIndex :
               ~(/\ i # j
                 /\ NoCardAccepted(piles[i], piles[j])
                 /\ MoveCards(SourcePile(i), TargetPile(j)))]_vars

\* a pile-to-pile move has just been refused in the game in progress, where
\* pile 0 is empty and the 2 of spades of pile 1 fits nowhere
C11_Witness ==
  /\ op = <<"move_cards", "Pile", "Pile">>
  /\ result = Err("InvalidMove")
  /\ piles[0].visible_cards = <<>>
  /\ \A j \in PileIndex \ {0} : NoCardAccepted(piles[0], piles[j])
  /\ piles[1].visible_cards = <<Card("Spades", "2")>>
  /\ \A j \in PileIndex \ {1} : NoCardAccepted(piles[1], piles[j])

\* the step left the whole game as it was
GameUnchanged ==
  cards' = cards /\ foundations' = foundations /\ piles' = piles /\ deck' = deck

\* C12 (no-op moves): move_cards(Foundation(s), Foundation) for every suit s
\* and move_cards(Pile(i), Pile(i)) for every pile index i return Ok in every
\* state and change no zone of the game.
C12_NoOpMoves ==
  /\ [](\A s \in Suit :
          move_cards(Game, SourceFoundation(s), TargetFoundation) =
            [game |-> Game, ret |-> Ok])
  /\ [](\A i \in PileIndex :
          move_cards(Game, SourcePile(i), TargetPile(i)) =
            [game |-> Game, ret |-> Ok])
  /\ [][/\ op' = <<"move_cards", "Foundation", "Foundation">> =>
            (result' = Ok /\ GameUnchanged)
        /\ \A i \in PileIndex :
             MoveCards(SourcePile(i), TargetPile(i)) =>
               (result' = Ok /\ GameUnchanged)]_vars

\* the first call on the game in progress (an empty pile, an empty
\* foundation) was a pile-to-pile move that returned Ok and moved nothing:
\* a move of a pile onto itself
C12_Witness ==
  /\ op = <<"move_cards", "Pile", "Pile">>
  /\ result = Ok
  /\ steps = 1
  /\ piles = MidGamePiles
  /\ FoundationIsEmpty(foundations[2])

\* C16 (dealing constraint): in every reachable game state pile i
\* (0-indexed) has at most i hidden cards, whatever moves, draws and resets
\* led to it.
C16_HiddenAtMostIndex ==
  \A i \in PileIndex : Len(piles[i].hidden_cards) <= i

\* the game has just been reset after two other calls: every pile i has
\* exactly i hidden cards again
C16_Witness ==
  /\ op = <<"reset">>
  /\ steps = 3
  /\ \A i \in PileIndex : Len(piles[i].hidden_cards) = i

\* C20 (reset): after reset(), whatever the state before, the four
\* foundations are empty, pile i (0-indexed) holds exactly i + 1 cards, i
\* hidden and 1 visible, and the deck holds the other 24 cards, all of them
\* remaining (none visible, none in the waste).
C20_ResetDeals ==
  [][Reset =>
       /\ \A k \in FoundationSlot : FoundationIsEmpty(foundations'[k])
       /\ \A i \in PileIndex :
            /\ PileLen(piles'[i]) = i + 1
            /\ Len(piles'[i].hidden_cards) = i
            /\ Len(piles'[i].visible_cards) = 1
       /\ DeckLen(deck') = 24
       /\ DeckVisibleCards(deck') = <<>>
       /\ DeckWasteCards(deck') = <<>>
       /\ Len(DeckRemainingCards(deck')) = 24
       /\ Range(DeckRemainingCards(deck')) =
            Range(new_standard_deck)
              \ UNION {Range(piles'[i].hidden_cards)
                         \cup Range(piles'[i].visible_cards) : i \in PileIndex}]_vars

\* the game in progress (cards on three foundations, an empty pile, a deck
\* with waste and a window of three) has just been reset
C20_Witness ==
  /\ op = <<"reset">>
  /\ steps = 1
  /\ cards = GameFromCards(MidGameDeck(3), MidGameFoundations, MidGamePiles)
  /\ deck.draw_count = 3
  /\ \A k \in FoundationSlot : FoundationIsEmpty(foundations[k])
  /\ DeckLen(deck) = 24

\* C21 (is_clear): is_clear() returns true iff all four foundations are
\* full, and whenever all four are full every pile and the deck are empty,
\* so the assertions inside is_clear() never fail.
C21_IsClear ==
  /\ [](GameIsClear(Game) <=>
          \A k \in FoundationSlot : FoundationCount(foundations[k]) = 13)
  /\ []((\A k \in FoundationSlot : FoundationCount(foundations[k]) = 13) =>
          /\ \A i \in PileIndex : PileLen(piles[i]) = 0
          /\ DeckLen(deck) = 0)
  /\ [](GameIsClearCall(Game) # Panic)
  /\ [][IsClear =>
          result' = Bool(\A k \in FoundationSlot :
                           FoundationCount(foundations[k]) = 13)]_vars

\* is_clear() has just returned true: the last card had gone to its
\* foundation and nothing is left on the table
C21_Witness ==
  /\ op = <<"is_clear">>
  /\ result = Bool(TRUE)
  /\ steps >= 2
  /\ \A i \in PileIndex : PileLen(piles[i]) = 0

\* the call names, as source or as target, a pile index that is none
NamesNoPile(source, target) ==
  \/ source[1] = "Pile" /\ source[2] >= NUM_PILES
  \/ target[1] = "Pile" /\ target[2] >= NUM_PILES

\* C26 (pile index out of range): a move_cards call that names a pile index
\* of 7 or more, as source or as target and whatever the other side is
\* (Pile(i) to Pile(i) included), panics instead of returning Ok or a
\* KlondikeErr, and it leaves every zone as it was.
C26_PileIndexPanics ==
  [][\A source \in MoveSource, target \in MoveTarget :
       NamesNoPile(source, target) =>
         (MoveCards(source, target) => result' = Panic /\ GameUnchanged)]_vars

\* after two other calls, a move from a pile to a pile has panicked
C26_Witness ==
  /\ op = <<"move_cards", "Pile", "Pile">>
  /\ result = Panic
  /\ steps = 3
  /\ NamesNoPile(SourcePile(NUM_PILES), TargetPile(NUM_PILES))
  /\ move_cards(Game, SourcePile(NUM_PILES), TargetPile(NUM_PILES)).ret = Panic

(***************************************************************************)
(* KlondikeSolitaireGame::from on its own: it is handed a Deck, four       *)
(* Foundations and seven Piles, right or wrong, and either builds the game *)
(* or panics.  Before the call the variables hold the arguments.           *)
(***************************************************************************)
\* zones that from accepts: those of the games in progress and of fresh deals
FromBases ==
  FromInputs
    \cup {<<g.deck, g.foundations, g.piles>> :
            g \in {GameNewShuffle(dc, ShufflePerm(k)) :
                     dc \in DrawCounts, k \in ShuffleKeys}}

\* the deck without its last remaining card
DeckWithoutLast(d) == [d EXCEPT !.cards = SubSeq(@, 1, Len(@) - 1)]

\* the last remaining card of the deck goes under pile i as a hidden card
HideDeckCard(in, i) ==
  LET d == in[1]
      p == in[3][i]
  IN IF Len(DeckRemainingCards(d)) > 0 /\ Len(p.visible_cards) > 0
        /\ Len(p.hidden_cards) < 6
     THEN <<DeckWithoutLast(d), in[2],
            [in[3] EXCEPT ![i] =
               PileFrom(<<d.cards[Len(d.cards)]>> \o p.hidden_cards,
                        p.visible_cards)]>>
     ELSE in

\* foundation k claims one card more than it was given
FoundationUp(in, k) ==
  <<in[1], [in[2] EXCEPT ![k] = FoundationPush(@).foundation], in[3]>>

\* foundation k lacks its top card
FoundationDown(in, k) ==
  <<in[1], [in[2] EXCEPT ![k] = FoundationPop(@).foundation], in[3]>>

\* foundation k claims one card more and the deck has one card less
FoundationUpDeckDown(in, k) ==
  IF Len(DeckRemainingCards(in[1])) > 0
  THEN <<DeckWithoutLast(in[1]),
         [in[2] EXCEPT ![k] = FoundationPush(@).foundation], in[3]>>
  ELSE in

FromCandidates ==
  FromBases
    \cup {HideDeckCard(in, i) : in \in FromBases, i \in PileIndex}
    \cup {FoundationUp(in, k) : in \in FromBases, k \in FoundationSlot}
    \cup {FoundationDown(in, k) : in \in FromBases, k \in FoundationSlot}
    \cup {FoundationUpDeckDown(in, k) : in \in FromBases, k \in FoundationSlot}

InitFrom ==
  /\ NoRun
  /\ \E in \in FromCandidates :
       /\ deck = in[1]
       /\ foundations = in[2]
       /\ piles = in[3]
  /\ cards = <<>>
  /\ op = <<"args">>
  /\ result = Unit
  /\ steps = 0

FromCall ==
  /\ UNCHANGED runVars
  /\ op = <<"args">>
  /\ op' = <<"from">>
  /\ steps' = steps + 1
  /\ LET made == GameFromCall(deck, foundations, piles) IN
       /\ result' = made.ret
       /\ IF made.ret = Panic
          THEN UNCHANGED <<cards, foundations, piles, deck>>
          ELSE SetGame(made.game)

SpecFrom == InitFrom /\ [][FromCall]_vars

\* the card sequences of the twelve zones handed to from
ZonesGiven ==
  <<deck.cards>>
    \o [n \in 1..NUM_FOUNDATIONS |-> FoundationCards(foundations[n - 1])]
    \o [n \in 1..NUM_PILES |->
          piles[n - 1].hidden_cards \o piles[n - 1].visible_cards]

RECURSIVE TotalLen(_)
TotalLen(zs) == IF zs = <<>> THEN 0 ELSE Len(Head(zs)) + TotalLen(Tail(zs))

InMoreThanOneZone ==
  \E a, b \in 1..Len(ZonesGiven) :
    a < b /\ Range(ZonesGiven[a]) \cap Range(ZonesGiven[b]) # {}

C23_FoundationLookup ==
  (op = <<"from">> /\ result = Constructed) =>
    \A s \in Suit : foundation(Game, s).suit = s

(***************************************************************************)
(* A Deck on its own: Deck::new or Deck::from, then any sequence of reset, *)
(* draw and pop.  The variables of the game that a Deck does not have      *)
(* stay empty.                                                             *)
(***************************************************************************)
\* the seven cards of the draw tests first, then the rest of the standard deck
DeckCardPool ==
  LET first == <<Card("Hearts", "Jack"), Card("Diamonds", "3"),
                 Card("Hearts", "Queen"), Card("Spades", "Jack"),
                 Card("Clubs", "Ace"), Card("Hearts", "10"),
                 Card("Spades", "Ace")>>
  IN first \o CardsNotIn(Range(first))

\* the arguments handed to Deck::from: every split of a pool prefix in three
DeckFromInputs ==
  {<<dc, Slice(DeckCardPool, 0, a), Slice(DeckCardPool, a, b),
     Slice(DeckCardPool, b, n)>> :
     dc \in 1..MaxDrawCount, a \in 0..MaxDeckCards, b \in 0..MaxDeckCards,
     n \in 0..MaxDeckCards}

InitialDecks ==
  {DeckNew(dc) : dc \in 1..MaxDrawCount}
    \cup {DeckFrom(in[1], in[2], in[3], in[4]) :
            in \in {x \in DeckFromInputs :
                      /\ Len(x[2]) + Len(x[3]) + Len(x[4]) <= MaxDeckCards
                      /\ DeckFromValid(x[1], x[2], x[3], x[4])}}

InitDeck ==
  /\ NoRun
  /\ deck \in InitialDecks
  /\ cards = <<>>
  /\ foundations = <<>>
  /\ piles = <<>>
  /\ op = <<"new">>
  /\ result = Unit
  /\ steps = 0

DeckResetCall(cs) ==
  /\ UNCHANGED runVars
  /\ Len(cs) <= MAX_DECK_SIZE
  /\ deck' = DeckReset(deck, cs)
  /\ op' = <<"reset">>
  /\ result' = Unit
  /\ UNCHANGED <<cards, foundations, piles, steps>>

DeckDrawCall ==
  /\ UNCHANGED runVars
  /\ deck' = DeckDraw(deck)
  /\ op' = <<"draw">>
  /\ result' = Unit
  /\ UNCHANGED <<cards, foundations, piles, steps>>

DeckPopCall ==
  /\ UNCHANGED runVars
  /\ deck' = DeckPop(deck).deck
  /\ op' = <<"pop">>
  /\ result' = Returned(DeckPop(deck).ret)
  /\ UNCHANGED <<cards, foundations, piles, steps>>

NextDeck ==
  \/ \E n \in 0..MaxDeckCards : DeckResetCall(Slice(DeckCardPool, 0, n))
  \/ DeckDrawCall
  \/ DeckPopCall

SpecDeck == InitDeck /\ [][NextDeck]_vars

\* C4 (deck window partition): in every Deck state reachable by reset, draw
\* and pop from Deck::new or a successful Deck::from, waste ++ visible ++
\* remaining is the backing sequence, with no gap and no overlap
\* (visible_index + visible_count <= number of cards), and
\* visible_count <= draw_count.
C4_DeckWindowPartition ==
  /\ deck.visible_index >= 0 /\ deck.visible_count >= 0
  /\ deck.visible_index + deck.visible_count <= Len(deck.cards)
  /\ deck.visible_count <= deck.draw_count
  /\ Len(DeckWasteCards(deck)) = deck.visible_index
  /\ Len(DeckVisibleCards(deck)) = deck.visible_count
  /\ DeckWasteCards(deck) \o DeckVisibleCards(deck) \o DeckRemainingCards(deck)
       = deck.cards

\* a pop has just shortened a window that has waste before it and stock after it
C4_Witness ==
  /\ op = <<"pop">>
  /\ result.tag = "Some"
  /\ deck.visible_index > 0
  /\ deck.visible_count > 0
  /\ deck.visible_count < deck.draw_count
  /\ deck.visible_index + deck.visible_count < Len(deck.cards)

\* the deck after k calls of draw()
RECURSIVE DrawTimes(_, _)
DrawTimes(d, k) == IF k = 0 THEN d ELSE DeckDraw(DrawTimes(d, k - 1))

\* the visible windows of the first k draws, one after the other
RECURSIVE WindowsOf(_, _)
WindowsOf(d, k) ==
  IF k = 0 THEN <<>>
  ELSE WindowsOf(d, k - 1) \o DeckVisibleCards(DrawTimes(d, k))

\* no waste and no visible cards: all cards are in the remaining region
IsZeroState(d) == d.visible_index = 0 /\ d.visible_count = 0

\* ceil(n / d) + 1
CycleLength(d) == ((Len(d.cards) + d.draw_count - 1) \div d.draw_count) + 1

\* C17 (draw cycle): from the state with no visible and no waste cards of a
\* deck of n > 0 cards with draw count d, draw() called again and again
\* with no pop in between comes back to that state after ceil(n/d) + 1
\* calls and not before, and the windows shown on the way hold every card
\* exactly once; on an empty deck draw() changes nothing.
C17_DrawCycle ==
  /\ [](DeckIsEmpty(deck) => DeckDraw(deck) = deck)
  /\ []((IsZeroState(deck) /\ ~DeckIsEmpty(deck)) =>
          /\ DrawTimes(deck, CycleLength(deck)) = deck
          /\ \A k \in 1..(CycleLength(deck) - 1) :
               ~IsZeroState(DrawTimes(deck, k))
          /\ WindowsOf(deck, CycleLength(deck) - 1) = deck.cards)
  /\ [][(DeckDrawCall /\ ~DeckIsEmpty(deck)) =>
          LET zero == DeckReset(deck, deck.cards) IN
          \A k \in 0..(CycleLength(deck) - 1) :
            deck = DrawTimes(zero, k) =>
              deck' = DrawTimes(zero, (k + 1) % CycleLength(deck))]_vars

\* a draw has just closed the cycle of a seven-card deck with draw count 3
\* (windows of 3, 3 and 1 cards, then none): it shows nothing again
C17_Witness ==
  /\ op = <<"draw">>
  /\ IsZeroState(deck)
  /\ Len(deck.cards) = 7
  /\ deck.draw_count = 3
  /\ CycleLength(deck) = 4

\* C18 (one draw): a draw() keeps the backing sequence and its order; the
\* visible cards go to the end of the waste and, if cards remain, the next
\* min(draw_count, number remaining) of them become the visible window; if
\* none remain the deck wraps to no waste, no visible cards and all cards
\* remaining.  Windows that pops have shortened or emptied are included.
C18_SingleDraw ==
  [][DeckDrawCall =>
       LET w == DeckWasteCards(deck)
           v == DeckVisibleCards(deck)
           r == DeckRemainingCards(deck)
           n == Min(deck.draw_count, Len(r))
       IN /\ deck'.cards = deck.cards
          /\ deck'.draw_count = deck.draw_count
          /\ IF Len(r) > 0
             THEN /\ DeckWasteCards(deck') = w \o v
                  /\ DeckVisibleCards(deck') = SubSeq(r, 1, n)
                  /\ DeckRemainingCards(deck') = SubSeq(r, n + 1, Len(r))
             ELSE /\ DeckWasteCards(deck') = <<>>
                  /\ DeckVisibleCards(deck') = <<>>
                  /\ DeckRemainingCards(deck') = deck.cards]_vars

\* a draw has just shown a full window of three behind a waste of two
\* cards, what is left of a window of three after a pop
C18_Witness ==
  /\ op = <<"draw">>
  /\ deck.draw_count = 3
  /\ deck.visible_index = 2
  /\ deck.visible_count = 3
  /\ Len(DeckRemainingCards(deck)) > 0

\* C19 (Deck::pop): with visible cards, pop removes and returns the card
\* top() reported, the last visible one; the window and the deck get one
\* card shorter, waste and remaining stay, and top() is then the visible
\* card before it or none.  With no visible card pop returns none and
\* changes nothing, whatever waste and remaining hold.
C19_DeckPop ==
  [][DeckPopCall =>
       LET v == DeckVisibleCards(deck) IN
       IF Len(v) = 0
       THEN result' = Returned(None) /\ deck' = deck
       ELSE /\ result' = Returned(Some(v[Len(v)]))
            /\ result' = Returned(DeckTop(deck))
            /\ DeckLostTop
            /\ DeckLen(deck') = DeckLen(deck) - 1
            /\ v[Len(v)] \notin Range(deck'.cards)
            /\ DeckTop(deck') =
                 IF Len(v) = 1 THEN None ELSE Some(v[Len(v) - 1])]_vars

\* the queen of hearts has just been popped off the first window of three
\* of the seven-card deck: the 3 of diamonds is the top now
C19_Witness ==
  /\ op = <<"pop">>
  /\ result = Returned(Some(Card("Hearts", "Queen")))
  /\ DeckTop(deck) = Some(Card("Diamonds", "3"))
  /\ DeckLen(deck) = 6
  /\ Len(DeckRemainingCards(deck)) = 4

(***************************************************************************)
(* Deck::from on its own: it is handed a draw count (a u8) and three card  *)
(* slices, right or wrong, and either builds the Deck or panics.  Before   *)
(* the call deck holds the four arguments.                                 *)
(***************************************************************************)
\* draw counts: none, one, three, the largest allowed and one more
DeckFromDrawCounts == {0, 1, MaxDrawCount, MAX_DECK_SIZE, MAX_DECK_SIZE + 1}

\* the arguments tried: the three slices are cut from DeckCardPool one after
\* the other, or with remaining starting one card early (so that it repeats
\* a card of waste or visible), and remaining is empty, one card long, or
\* long enough to bring the deck to 24 or to 25 cards
DeckFromArgs ==
  UNION {
    UNION {
      {[draw_count |-> dc,
        waste |-> Slice(DeckCardPool, 0, a),
        visible |-> Slice(DeckCardPool, a, a + b),
        remaining |-> Slice(DeckCardPool, c, c + n)] :
         dc \in DeckFromDrawCounts,
         c \in {y \in {a + b - 1, a + b} : y >= 0},
         n \in {0, 1, MAX_DECK_SIZE - a - b, MAX_DECK_SIZE + 1 - a - b}} :
      b \in 0..(MaxDrawCount + 1)} :
    a \in 0..2}

InitDeckFrom ==
  /\ NoRun
  /\ deck \in DeckFromArgs
  /\ cards = <<>>
  /\ foundations = <<>>
  /\ piles = <<>>
  /\ op = <<"args">>
  /\ result = Unit
  /\ steps = 0

DeckFromStep ==
  /\ UNCHANGED runVars
  /\ op = <<"args">>
  /\ op' = <<"from">>
  /\ steps' = steps + 1
  /\ LET made == DeckFromCall(deck.draw_count, deck.waste, deck.visible,
                              deck.remaining) IN
       /\ result' = made.ret
       /\ deck' = IF made.ret = Panic THEN deck ELSE made.deck
  /\ UNCHANGED <<cards, foundations, piles>>

SpecDeckFrom == InitDeckFrom /\ [][DeckFromStep]_vars

\* some card is given twice, within one slice or across two of them
DeckFromRepeatsCard ==
  LET all == deck.waste \o deck.visible \o deck.remaining IN
    \E i, j \in 1..Len(all) : i < j /\ all[i] = all[j]

\* C24 (Deck::from): the call panics when visible is longer than
\* draw_count, when the three slices hold more than 24 cards, when a card
\* is given twice, or when draw_count is not in 1..24; in every other case
\* the Deck built has exactly the given waste, visible and remaining cards
\* and the given draw count.
C24_DeckFromValidates ==
  [][DeckFromStep =>
       /\ result' = Panic <=>
            \/ Len(deck.visible) > deck.draw_count
            \/ Len(deck.waste) + Len(deck.visible) + Len(deck.remaining) > 24
            \/ DeckFromRepeatsCard
            \/ deck.draw_count \notin 1..24
       /\ result' = Panic => deck' = deck
       /\ result' # Panic =>
            /\ result' = Constructed
            /\ DeckWasteCards(deck') = deck.waste
            /\ DeckVisibleCards(deck') = deck.visible
            /\ DeckRemainingCards(deck') = deck.remaining
            /\ deck'.draw_count = deck.draw_count]_vars

\* Deck::from has just refused 24 different cards and a draw count of 3,
\* because four of them were to be visible
C24_Witness ==
  /\ op = <<"from">>
  /\ result = Panic
  /\ deck.draw_count = 3
  /\ Len(deck.visible) = 4
  /\ Len(deck.waste) + Len(deck.visible) + Len(deck.remaining) = 24
  /\ ~DeckFromRepeatsCard

(***************************************************************************)
(* Two Piles on their own (a source and a target, as in the pile tests):   *)
(* Pile::new or Pile::from, then any sequence of reset, push, pop and      *)
(* move_to.  piles is here the pair of them, indexed 0 and 1.              *)
(***************************************************************************)
PileSlot == 0..1

\* the cards offered to push
PileCardPool ==
  {Card("Spades", "King"), Card("Hearts", "Queen"), Card("Spades", "10"),
   Card("Hearts", "9"), Card("Spades", "8"), Card("Clubs", "8"),
   Card("Hearts", "8"), Card("Diamonds", "7"), Card("Clubs", "6"),
   Card("Diamonds", "3"),
   Card("Spades", "2"), Card("Hearts", "Ace")}

\* the arguments handed to Pile::from, as <<hidden, visible>>
PileFromInputs ==
  {<<<<>>, <<>>>>,
   <<<<Card("Diamonds", "3")>>,
     <<Card("Hearts", "9"), Card("Spades", "8"), Card("Diamonds", "7"),
       Card("Clubs", "6")>>>>,
   <<<<>>, <<Card("Clubs", "8")>>>>,
   <<<<>>, <<Card("Spades", "10")>>>>,
   <<<<Card("Clubs", "6"), Card("Spades", "King")>>,
     <<Card("Spades", "2"), Card("Hearts", "Ace")>>>>,
   <<<<Card("Hearts", "9")>>, <<Card("Spades", "King"), Card("Hearts", "Queen")>>>>}

\* the card slices handed to Pile::reset (1 to 7 cards, not checked further)
PileResetInputs ==
  {<<Card("Hearts", "Queen")>>,
   <<Card("Diamonds", "3"), Card("Hearts", "9")>>,
   <<Card("Hearts", "Ace"), Card("Diamonds", "7"), Card("Spades", "King")>>}

InitialPiles ==
  {PileNew}
    \cup {PileFrom(in[1], in[2]) :
            in \in {x \in PileFromInputs : PileFromValid(x[1], x[2])}}

InitPile ==
  /\ NoRun
  /\ piles \in [PileSlot -> InitialPiles]
  /\ cards = <<>>
  /\ foundations = <<>>
  /\ deck = <<>>
  /\ op = <<"new">>
  /\ result = Unit
  /\ steps = 0

PileCallDone ==
  /\ UNCHANGED runVars
  /\ steps < MaxPileSteps
  /\ steps' = steps + 1
  /\ UNCHANGED <<cards, foundations, deck>>

PileResetCall(i, cs) ==
  /\ PileCallDone
  /\ Len(cs) <= 7 /\ Len(cs) > 0
  /\ op' = <<"reset", i>>
  /\ piles' = [piles EXCEPT ![i] = PileReset(@, cs)]
  /\ result' = Unit

PilePushCall(i, card) ==
  /\ PileCallDone
  /\ op' = <<"push", i>>
  /\ piles' = [piles EXCEPT ![i] = PilePush(@, card).pile]
  /\ result' = PilePush(piles[i], card).ret

PilePopCall(i) ==
  /\ PileCallDone
  /\ op' = <<"pop", i>>
  /\ piles' = [piles EXCEPT ![i] = PilePop(@).pile]
  /\ result' = Returned(PilePop(piles[i]).ret)

\* piles[i].move_to(&mut piles[j]); the borrow checker rules out i = j
PileMoveToCall(i, j) ==
  /\ PileCallDone
  /\ i # j
  /\ op' = <<"move_to", i>>
  /\ LET after == PileMoveTo(piles[i], piles[j]) IN
       /\ piles' = [piles EXCEPT ![i] = after.source, ![j] = after.target]
       /\ result' = after.ret

NextPile ==
  \/ \E i \in PileSlot, cs \in PileResetInputs : PileResetCall(i, cs)
  \/ \E i \in PileSlot, card \in PileCardPool : PilePushCall(i, card)
  \/ \E i \in PileSlot : PilePopCall(i)
  \/ \E i, j \in PileSlot : PileMoveToCall(i, j)

SpecPile == InitPile /\ [][NextPile]_vars

\* bottom-to-top, each card is one rank below and of the other color than
\* the card under it
DescendingAlternating(v) ==
  \A n \in 1..(Len(v) - 1) :
    /\ rank_index(v[n + 1].rank) + 1 = rank_index(v[n].rank)
    /\ CardColor(v[n + 1]) # CardColor(v[n])

\* C3 (pile ordering): after any sequence of push, pop and move_to on piles
\* started from new, reset or a successful Pile::from, the visible cards of
\* every pile, bottom to top, strictly descend in rank by one with strictly
\* alternating color.
C3_PileOrdering ==
  \A i \in DOMAIN piles : DescendingAlternating(piles[i].visible_cards)

\* a move_to has just built a run of five cards on the other pile
C3_Witness ==
  /\ op[1] = "move_to"
  /\ result = Ok
  /\ \E i \in PileSlot : Len(piles[i].visible_cards) >= 5

\* C10 (move_to): a successful move_to picks the smallest index k of the
\* source's visible cards whose card the target accepts and moves exactly
\* the cards from k to the end, in order, onto the end of the target's
\* visible cards; the source keeps visible[0..k), and hidden cards are
\* touched only by the reveal rule (the source's last hidden card turns up
\* when k = 0).
C10_MoveToSuffix ==
  [][\A i, j \in PileSlot :
       (PileMoveToCall(i, j) /\ result' = Ok) =>
         LET v == piles[i].visible_cards
             h == piles[i].hidden_cards
         IN \E k \in 0..(Len(v) - 1) :
              /\ PileAccepts(piles[j], At(v, k))
              /\ \A m \in 0..(k - 1) : ~PileAccepts(piles[j], At(v, m))
              /\ piles'[j].visible_cards =
                   piles[j].visible_cards \o SliceFrom(v, k)
              /\ piles'[j].hidden_cards = piles[j].hidden_cards
              /\ IF k = 0 /\ Len(h) > 0
                 THEN /\ piles'[i].visible_cards = <<h[Len(h)]>>
                      /\ piles'[i].hidden_cards = SubSeq(h, 1, Len(h) - 1)
                 ELSE /\ piles'[i].visible_cards = Slice(v, 0, k)
                      /\ piles'[i].hidden_cards = h]_vars

\* the partial move of the pile tests: 7 of diamonds and 6 of clubs went
\* from under 9 of hearts, 8 of spades onto the 8 of clubs
C10_Witness ==
  /\ op[1] = "move_to"
  /\ result = Ok
  /\ \E i, j \in PileSlot :
       /\ piles[i].hidden_cards = <<Card("Diamonds", "3")>>
       /\ piles[i].visible_cards = <<Card("Hearts", "9"), Card("Spades", "8")>>
       /\ piles[j].visible_cards =
            <<Card("Clubs", "8"), Card("Diamonds", "7"), Card("Clubs", "6")>>

\* what next_card() must report for pile p: nothing above an Ace, a King of
\* any color on an empty pile, else the other color and the rank below the top
NextCardAsClaimed(p) ==
  LET v == p.visible_cards IN
  IF Len(v) = 0 THEN PileNextCard(p) = Some(<<None, "King">>)
  ELSE IF v[Len(v)].rank = "Ace" THEN PileNextCard(p) = None
  ELSE /\ PileNextCard(p) # None
       /\ PileNextCard(p)[1][1] # None
       /\ PileNextCard(p)[1][1][1] \in {"Red", "Black"} \ {CardColor(v[Len(v)])}
       /\ rank_index(PileNextCard(p)[1][2]) + 1 = rank_index(v[Len(v)].rank)

\* `card` is what next_card() of pile p describes
MatchesNextCard(p, card) ==
  LET next == PileNextCard(p) IN
  /\ next # None
  /\ card.rank = next[1][2]
  /\ next[1][1] = None \/ next[1][1] = Some(CardColor(card))

\* the result the claim gives for can_push(card) on pile p
CanPushAsClaimed(p, card) ==
  IF PileAccepts(p, card) THEN Ok
  ELSE IF PileTop(p) # None /\ PileTop(p)[1].rank = "Ace" THEN Err("Capacity")
  ELSE Err("InvalidCard")

\* C13 (can_push / push): for every pile and every card, can_push is Ok iff
\* the card matches next_card() (a King of any color on an empty pile, else
\* the other color than the top and one rank below it); otherwise the error
\* is Capacity when the top is an Ace and InvalidCard in every other case;
\* push returns the same result, appends the card exactly when it is Ok and
\* otherwise leaves the pile unchanged.
C13_CanPush ==
  /\ [](\A i \in PileSlot :
          /\ NextCardAsClaimed(piles[i])
          /\ \A card \in Range(new_standard_deck) :
               /\ PileCanPush(piles[i], card) = Ok
                    <=> MatchesNextCard(piles[i], card)
               /\ PileCanPush(piles[i], card) = CanPushAsClaimed(piles[i], card)
               /\ PilePush(piles[i], card) =
                    [pile |-> IF CanPushAsClaimed(piles[i], card) = Ok
                              THEN [piles[i] EXCEPT
                                      !.visible_cards = Append(@, card)]
                              ELSE piles[i],
                     ret |-> CanPushAsClaimed(piles[i], card)])
  /\ [][op'[1] = "push" =>
          \A i \in PileSlot, card \in PileCardPool :
            PilePushCall(i, card) =>
              /\ result' = CanPushAsClaimed(piles[i], card)
              /\ piles'[1 - i] = piles[1 - i]
              /\ piles'[i].hidden_cards = piles[i].hidden_cards
              /\ piles'[i].visible_cards =
                   IF result' = Ok
                   THEN Append(piles[i].visible_cards, card)
                   ELSE piles[i].visible_cards]_vars

\* a push has just been refused with Capacity by a pile whose top is an Ace
C13_Witness ==
  /\ op[1] = "push"
  /\ result = Err("Capacity")
  /\ PileTop(piles[op[2]]) = Some(Card("Hearts", "Ace"))
  /\ Len(piles[op[2]].visible_cards) > 1

\* the cards returned by calling pop() on pile p until it returns none
RECURSIVE PopAll(_)
PopAll(p) ==
  IF PilePop(p).ret = None THEN <<>>
  ELSE PilePop(p).ret \o PopAll(PilePop(p).pile)

Reverse(s) == [n \in 1..Len(s) |-> s[Len(s) + 1 - n]]

\* pile i, which had visible cards v and hidden cards h, keeps the first
\* `kept` cards of v; if it keeps none, its last hidden card (if any) turns up
SourceAfterTaking(i, kept) ==
  LET v == piles[i].visible_cards
      h == piles[i].hidden_cards
  IN IF kept = 0 /\ Len(h) > 0
     THEN /\ piles'[i].visible_cards = <<h[Len(h)]>>
          /\ piles'[i].hidden_cards = SubSeq(h, 1, Len(h) - 1)
          /\ PileTop(piles'[i]) = Some(h[Len(h)])
     ELSE /\ piles'[i].visible_cards = SubSeq(v, 1, kept)
          /\ piles'[i].hidden_cards = h

\* C14 (reveal rule): when a pop or a successful move_to leaves the source
\* without visible cards while it has hidden cards, exactly its last hidden
\* card moves to the visible cards and becomes the top; otherwise the hidden
\* cards are unchanged.  Calling pop until it returns none therefore yields
\* the visible cards from top to bottom, then the hidden cards from last to
\* first.
C14_RevealRule ==
  /\ [](\A i \in PileSlot :
          PopAll(piles[i]) =
            Reverse(piles[i].hidden_cards \o piles[i].visible_cards))
  /\ [][/\ \A i \in PileSlot :
             PilePopCall(i) =>
               IF Len(piles[i].visible_cards) = 0
               THEN result' = Returned(None) /\ piles' = piles
               ELSE /\ result' = Returned(PileTop(piles[i]))
                    /\ SourceAfterTaking(i, Len(piles[i].visible_cards) - 1)
                    /\ piles'[1 - i] = piles[1 - i]
        /\ \A i \in PileSlot :
             (PileMoveToCall(i, 1 - i) /\ result' = Ok) =>
               LET taken == Len(piles'[1 - i].visible_cards)
                              - Len(piles[1 - i].visible_cards)
               IN /\ taken \in 1..Len(piles[i].visible_cards)
                  /\ SourceAfterTaking(i, Len(piles[i].visible_cards) - taken)
                  /\ piles'[1 - i].hidden_cards = piles[1 - i].hidden_cards]_vars

\* the king of spades has just been popped off a pile reset to ace of
\* hearts, 7 of diamonds, king of spades: the 7 turned up, the ace stays hidden
C14_Witness ==
  /\ op[1] = "pop"
  /\ result = Returned(Some(Card("Spades", "King")))
  /\ piles[op[2]].visible_cards = <<Card("Diamonds", "7")>>
  /\ piles[op[2]].hidden_cards = <<Card("Hearts", "Ace")>>

\* C15 (top card is visible): in every reachable pile state a pile with
\* hidden cards has visible cards, so is_empty(), which looks at the visible
\* cards only, is true iff len() is 0.
C15_HiddenImpliesVisible ==
  \A i \in DOMAIN piles :
    /\ Len(piles[i].hidden_cards) > 0 => Len(piles[i].visible_cards) > 0
    /\ PileIsEmpty(piles[i]) <=> PileLen(piles[i]) = 0

\* the 2 of spades has just been popped as the last visible card of a pile
\* with two hidden cards: the king of spades turned up over the 6 of clubs
C15_Witness ==
  /\ op[1] = "pop"
  /\ result = Returned(Some(Card("Spades", "2")))
  /\ piles[op[2]].visible_cards = <<Card("Spades", "King")>>
  /\ piles[op[2]].hidden_cards = <<Card("Clubs", "6")>>
  /\ ~PileIsEmpty(piles[op[2]])

(***************************************************************************)
(* Pile::from on its own: it is handed two card slices, right or wrong,    *)
(* and either builds the Pile or panics.  Before the call piles holds the  *)
(* two arguments.                                                          *)
(***************************************************************************)
\* hidden slices tried: seven cards of the pile tests cut to 0, 1, 2, 6 and
\* 7 cards, one card twice, and one card that some visible slices hold too
PileFromHidden ==
  LET seven == <<Card("Hearts", "Queen"), Card("Spades", "King"),
                 Card("Diamonds", "2"), Card("Hearts", "King"),
                 Card("Spades", "Queen"), Card("Hearts", "Jack"),
                 Card("Clubs", "Ace")>>
  IN {Slice(seven, 0, n) : n \in {0, 1, 2, 6, 7}}
       \cup {<<Card("Diamonds", "Ace"), Card("Diamonds", "Ace")>>,
             <<Card("Clubs", "5")>>,
             <<Card("Diamonds", "3"), Card("Clubs", "5")>>}

\* visible slices tried, bottom to top: none, one card, runs in order, and
\* runs with a wrong color, a wrong rank step, a card twice, or a card on
\* top of an ace
PileFromVisible ==
  {<<>>,
   <<Card("Clubs", "5")>>,
   <<Card("Hearts", "King")>>,
   <<Card("Clubs", "5"), Card("Diamonds", "4")>>,
   <<Card("Hearts", "4"), Card("Spades", "3"), Card("Hearts", "2")>>,
   <<Card("Clubs", "King"), Card("Diamonds", "Queen"), Card("Clubs", "Jack"),
     Card("Diamonds", "10"), Card("Clubs", "9")>>,
   <<Card("Hearts", "2"), Card("Spades", "Ace")>>,
   <<Card("Diamonds", "3"), Card("Spades", "4")>>,
   <<Card("Diamonds", "3"), Card("Hearts", "2")>>,
   <<Card("Diamonds", "3"), Card("Diamonds", "2")>>,
   <<Card("Diamonds", "3"), Card("Spades", "3")>>,
   <<Card("Clubs", "5"), Card("Diamonds", "3")>>,
   <<Card("Diamonds", "Ace"), Card("Diamonds", "Ace")>>,
   <<Card("Hearts", "Ace"), Card("Spades", "King")>>,
   <<Card("Clubs", "5"), Card("Diamonds", "4"), Card("Clubs", "5")>>,
   <<Card("Clubs", "5"), Card("Diamonds", "4"), Card("Spades", "3"),
     Card("Clubs", "2")>>}

InitPileFrom ==
  /\ NoRun
  /\ \E hidden \in PileFromHidden, visible \in PileFromVisible :
       piles = [hidden |-> hidden, visible |-> visible]
  /\ cards = <<>>
  /\ foundations = <<>>
  /\ deck = <<>>
  /\ op = <<"args">>
  /\ result = Unit
  /\ steps = 0

PileFromStep ==
  /\ UNCHANGED runVars
  /\ op = <<"args">>
  /\ op' = <<"from">>
  /\ steps' = steps + 1
  /\ LET made == PileFromCall(piles.hidden, piles.visible) IN
       /\ result' = made.ret
       /\ piles' = IF made.ret = Panic THEN piles ELSE made.pile
  /\ UNCHANGED <<cards, foundations, deck>>

SpecPileFrom == InitPileFrom /\ [][PileFromStep]_vars

\* some card is given twice, within one slice or across the two
PileFromRepeatsCard ==
  LET all == piles.hidden \o piles.visible IN
    \E i, j \in 1..Len(all) : i < j /\ all[i] = all[j]

\* C25 (Pile::from): the call panics when hidden is not empty and visible
\* is, when hidden has more than 6 cards, when a card is given twice, or
\* when two adjacent visible cards are not of opposite color with the upper
\* one exactly one rank below; in every other case the Pile built has
\* exactly the given hidden and visible cards.
C25_PileFromValidates ==
  [][PileFromStep =>
       /\ result' = Panic <=>
            \/ piles.hidden # <<>> /\ piles.visible = <<>>
            \/ Len(piles.hidden) > 6
            \/ PileFromRepeatsCard
            \/ ~DescendingAlternating(piles.visible)
       /\ result' = Panic => piles' = piles
       /\ result' # Panic =>
            /\ result' = Constructed
            /\ piles'.hidden_cards = piles.hidden
            /\ piles'.visible_cards = piles.visible]_vars

\* Pile::from has just refused two hidden cards under a three of diamonds
\* with a two of diamonds on it: four different cards, the ranks in step,
\* the colors not
C25_Witness ==
  /\ op = <<"from">>
  /\ result = Panic
  /\ Len(piles.hidden) = 2
  /\ piles.visible = <<Card("Diamonds", "3"), Card("Diamonds", "2")>>
  /\ ~PileFromRepeatsCard

(***************************************************************************)
(* SimpleKlondikeStrategy (strategies/solitaire/klondike/simple.rs): play  *)
(* drives one game with move_cards and draw until is_clear() or until it   *)
(* breaks out of its loop.                                                 *)
(***************************************************************************)
is_at_start(d) ==
  Len(DeckVisibleCards(d)) = 0 /\ Len(DeckWasteCards(d)) = 0

\* the first pile, among those not empty, whose top card is the next card of
\* the foundation of its suit
check_pile_to_foundation(g) ==
  LET fits == {i \in PileIndex :
                 /\ ~PileIsEmpty(g.piles[i])
                 /\ FoundationNextCard(
                      foundation(g, PileTop(g.piles[i])[1].suit))
                      = PileTop(g.piles[i])}
  IN IF fits = {} THEN None
     ELSE Some(<<SourcePile(CHOOSE i \in fits : \A j \in fits : i <= j),
                 TargetFoundation>>)

\* check_deck_to_pile proposing the first pile without asking can_push
check_deck_to_pile_FirstPile(g) ==
  Some(<<SourceDeck, TargetPile(0)>>)

\* the first pile that can_push accepts the top card of the deck on
check_deck_to_pile(g) ==
  LET deck_card == DeckTop(g.deck)[1]
      fits == {i \in PileIndex : PileCanPush(g.piles[i], deck_card) = Ok}
  IN IF fits = {} THEN None
     ELSE Some(<<SourceDeck,
                 TargetPile(CHOOSE i \in fits : \A j \in fits : i <= j)>>)

\* what unwrap() makes of the result of a move: the loop goes on, or panics
Unwrapped(made, m) ==
  IF made.ret = Ok
  THEN [game |-> made.game, moved |-> TRUE, ret |-> "continue"]
  ELSE [game |-> made.game, moved |-> m, ret |-> "panicked"]

\* PlayIteration breaking out after any draw that follows no move, wherever
\* the deck then is
PlayIteration_BreaksAnywhere(g, m) ==
  LET pile_move == check_pile_to_foundation(g)
      to_foundation == move_cards(g, SourceDeck, TargetFoundation)
      drawn == GameDraw(g)
  IN
  IF GameIsClearCall(g) = Panic
  THEN [game |-> g, moved |-> m, ret |-> "panicked"]
  ELSE IF GameIsClearCall(g) = Bool(TRUE)
  THEN [game |-> g, moved |-> m, ret |-> "returned"]
  ELSE IF pile_move # None
  THEN Unwrapped(move_cards(g, pile_move[1][1], pile_move[1][2]), m)
  ELSE IF Len(DeckVisibleCards(g.deck)) # 0 /\ to_foundation.ret = Ok
  THEN [game |-> to_foundation.game, moved |-> TRUE, ret |-> "continue"]
  ELSE IF Len(DeckVisibleCards(g.deck)) # 0 /\ check_deck_to_pile(g) # None
  THEN Unwrapped(move_cards(g, check_deck_to_pile(g)[1][1],
                            check_deck_to_pile(g)[1][2]), m)
  ELSE IF ~m
  THEN [game |-> drawn, moved |-> m, ret |-> "returned"]
  ELSE IF is_at_start(drawn.deck)
  THEN [game |-> drawn, moved |-> FALSE, ret |-> "continue"]
  ELSE [game |-> drawn, moved |-> m, ret |-> "continue"]

\* one pass through the while loop of play, from its condition to continue,
\* to break or to the end of its body; m is moved
PlayIteration(g, m) ==
  LET pile_move == check_pile_to_foundation(g)
      to_foundation == move_cards(g, SourceDeck, TargetFoundation)
      drawn == GameDraw(g)
  IN
  IF GameIsClearCall(g) = Panic
  THEN [game |-> g, moved |-> m, ret |-> "panicked"]
  ELSE IF GameIsClearCall(g) = Bool(TRUE)
  THEN [game |-> g, moved |-> m, ret |-> "returned"]
  ELSE IF pile_move # None
  THEN Unwrapped(move_cards(g, pile_move[1][1], pile_move[1][2]), m)
  ELSE IF Len(DeckVisibleCards(g.deck)) # 0 /\ to_foundation.ret = Ok
  THEN [game |-> to_foundation.game, moved |-> TRUE, ret |-> "continue"]
  ELSE IF Len(DeckVisibleCards(g.deck)) # 0 /\ check_deck_to_pile(g) # None
  THEN Unwrapped(move_cards(g, check_deck_to_pile(g)[1][1],
                            check_deck_to_pile(g)[1][2]), m)
  ELSE IF is_at_start(drawn.deck)
  THEN IF ~m
       THEN [game |-> drawn, moved |-> m, ret |-> "returned"]
       ELSE [game |-> drawn, moved |-> FALSE, ret |-> "continue"]
  ELSE [game |-> drawn, moved |-> m, ret |-> "continue"]

\* the game as play leaves it
RECURSIVE PlayLoop(_, _)
PlayLoop(g, m) ==
  CHOOSE end \in {IF it.ret = "continue"
                  THEN PlayLoop(it.game, it.moved) ELSE it.game :
                    it \in {PlayIteration(g, m)}} : TRUE

Play(g) == PlayLoop(g, FALSE)

\* a shuffle that the strategy wins when one card is drawn at a time: the
\* piles unwind onto the foundations from pile 6 down to pile 0, and the
\* deck follows card by card
WinningShuffle ==
  [n \in 1..STANDARD_DECK_SIZE |-> IF n <= 28 THEN 29 - n ELSE n]

\* the games handed to play: fresh deals and games in progress
PlayGames ==
  InitialGames
    \cup {GameNewShuffle(dc, WinningShuffle) : dc \in DrawCounts}

InitPlay ==
  /\ \E g \in PlayGames :
       /\ cards = g.cards
       /\ foundations = g.foundations
       /\ piles = g.piles
       /\ deck = g.deck
  /\ op = <<"new">>
  /\ result = Unit
  /\ steps = 0
  /\ moved = FALSE
  /\ wins = 0 /\ games = 0 /\ threads = <<>>

\* play is called: let mut moved = false
PlayCall ==
  /\ op = <<"new">>
  /\ op' = <<"play">>
  /\ moved' = FALSE
  /\ UNCHANGED <<cards, foundations, piles, deck, result, steps,
                 wins, games, threads>>

\* one pass through the loop of play
PlayStep ==
  /\ op = <<"play">>
  /\ LET it == PlayIteration(Game, moved) IN
       /\ SetGame(it.game)
       /\ moved' = it.moved
       /\ op' = IF it.ret = "continue" THEN <<"play">> ELSE <<it.ret>>
       /\ result' = IF it.ret = "panicked" THEN Panic ELSE Unit
  /\ UNCHANGED <<steps, wins, games, threads>>

NextPlay == PlayCall \/ PlayStep

SpecPlay == InitPlay /\ [][NextPlay]_vars

\* some move_cards call would return Ok and leave the game another one
SomeMoveLeft ==
  \E source \in MoveSource, target \in MoveTarget :
    LET made == move_cards(Game, source, target) IN
      made.ret = Ok /\ made.game # Game

\* C30 (end of play): when play has returned, the game is clear, or else
\* play broke out of its loop right after a draw that brought the deck back
\* to its start (nothing visible, no waste) with no move made since the
\* deck was last there, and no pile has on top the next card of its
\* foundation.  Moves that play never tries (pile to pile, foundation to
\* pile) may still be legal then.
C30_PlayStopsAtStart ==
  op = <<"returned">> =>
    \/ GameIsClear(Game)
    \/ /\ is_at_start(deck)
       /\ ~moved
       /\ check_pile_to_foundation(Game) = None

\* C30 as stated: when play has returned, the game is clear or no legal
\* move is left, that is, no move_cards(source, target), whatever source
\* and target, would return Ok and change the game.
C30_NoMoveLeft ==
  op = <<"returned">> => GameIsClear(Game) \/ ~SomeMoveLeft

\* play has returned from a game that is not clear, dealt from the unshuffled
\* deck one card at a time, in which the two of clubs on pile 6 can still go
\* onto the three of diamonds on pile 1
C30_Witness ==
  /\ op = <<"returned">>
  /\ ~GameIsClear(Game)
  /\ is_at_start(deck)
  /\ cards = new_standard_deck
  /\ PileTop(piles[6]) = Some(Card("Clubs", "2"))
  /\ PileTop(piles[1]) = Some(Card("Diamonds", "3"))
  /\ move_cards(Game, SourcePile(6), TargetPile(1)).ret = Ok

(***************************************************************************)
(* run_klondike (main.rs): the main thread splits game_count over          *)
(* thread_count workers, spawns them, joins them and prints the two shared *)
(* counters.  op is the main thread: where it is, its two arguments and    *)
(* the number of workers it has joined.  A worker is the record of its     *)
(* locals; rng is the stream of shuffles its StdRng will produce and the   *)
(* number it has produced so far.  What a worker does between two accesses *)
(* to the shared counters touches its locals only and is one step.         *)
(***************************************************************************)
\* the split with the test on i alone: one worker too many gets an extra game
GamesOfThread_OneMore(game_count, thread_count, i) ==
  LET games_per_thread == game_count \div thread_count
      add_game == game_count % thread_count
  IN games_per_thread + (IF i <= add_game THEN 1 ELSE 0)

\* the game_count of worker i (counted from 0)
GamesOfThread(game_count, thread_count, i) ==
  LET games_per_thread == game_count \div thread_count
      add_game == game_count % thread_count
  IN games_per_thread + (IF i + 1 <= add_game THEN 1 ELSE 0)

\* AtomicUsize::fetch_add: one indivisible read-modify-write
fetch_add(counter, val) == [value |-> counter + val, ret |-> counter]

\* the shuffles a StdRng hands out here: the one that leaves the deck as
\* built, and one that the strategy wins
Deals == {ShufflePerm(1), WinningShuffle}

\* the card pools of the games dealt from them
DealtPools == {GameNewShuffle(1, shuffle).cards : shuffle \in Deals}

\* a GameFilter is what its accept answers for each game it is shown
Filters == [DealtPools -> BOOLEAN]

\* AllFilter::new()
AllFilter == [pool \in DealtPools |-> TRUE]

\* filter.accept(&game)
Accept(filter, game) == filter[game.cards]

\* strategy.play(&mut game) on new_shuffle(1, shuffle), for each shuffle
Played == [shuffle \in Deals |-> Play(GameNewShuffle(1, shuffle))]

InitRun ==
  /\ \E game_count \in 0..MaxGames, thread_count \in 1..MaxThreads :
       op = <<"spawn", game_count, thread_count, 0>>
  /\ threads = <<>>
  /\ wins = 0
  /\ games = 0
  /\ moved = FALSE
  /\ cards = <<>> /\ foundations = <<>> /\ piles = <<>> /\ deck = <<>>
  /\ result = Unit
  /\ steps = 0

\* one pass through the spawn loop: worker i = Len(threads) starts
Spawn ==
  /\ op[1] = "spawn"
  /\ LET i == Len(threads)
         game_count == GamesOfThread(op[2], op[3], i)
     IN /\ \E stream \in [1..game_count -> Deals] :
             threads' =
               Append(threads,
                      [game_count |-> game_count,
                       played |-> 0,
                       rng |-> [stream |-> stream, drawn |-> 0],
                       filter |-> AllFilter,
                       game |-> None,
                       pc |-> IF game_count = 0 THEN "finished" ELSE "deal"])
        /\ op' = [op EXCEPT ![1] = IF i + 1 = op[3] THEN "join" ELSE "spawn"]
  /\ UNCHANGED <<cards, foundations, piles, deck, result, steps, moved,
                 wins, games>>

\* WorkerPlay taking its shuffle from the rng of the first worker
WorkerPlay_SharedRng(i) ==
  /\ i \in 1..Len(threads)
  /\ threads[i].pc = "deal"
  /\ threads[1].rng.drawn < Len(threads[1].rng.stream)
  /\ LET shuffle == threads[1].rng.stream[threads[1].rng.drawn + 1]
         game == Played[shuffle]
         drawn == [threads EXCEPT ![1].rng.drawn = @ + 1]
     IN threads' =
          [drawn EXCEPT ![i].game = Some(game),
                        ![i].pc = IF GameIsClearCall(game) = Bool(TRUE)
                                  THEN "clear" ELSE "count"]
  /\ UNCHANGED <<cards, foundations, piles, deck, op, result, steps, moved,
                 wins, games>>

\* WorkerPlay playing the deal whatever the filter says
WorkerPlay_IgnoresFilter(i) ==
  /\ i \in 1..Len(threads)
  /\ threads[i].pc = "deal"
  /\ threads[i].rng.drawn < Len(threads[i].rng.stream)
  /\ LET shuffle == threads[i].rng.stream[threads[i].rng.drawn + 1]
     IN threads' =
          [threads EXCEPT
             ![i].rng.drawn = @ + 1,
             ![i].game = Some(Played[shuffle]),
             ![i].pc = IF GameIsClearCall(Played[shuffle]) = Bool(TRUE)
                       THEN "clear" ELSE "count"]
  /\ UNCHANGED <<cards, foundations, piles, deck, op, result, steps, moved,
                 wins, games>>

\* worker i deals a game, has the filter look at it and, if accepted, plays
\* it and asks whether it is clear
WorkerPlay(i) ==
  /\ i \in 1..Len(threads)
  /\ threads[i].pc = "deal"
  /\ threads[i].rng.drawn < Len(threads[i].rng.stream)
  /\ LET shuffle == threads[i].rng.stream[threads[i].rng.drawn + 1]
         game == GameNewShuffle(1, shuffle)
     IN threads' =
          IF Accept(threads[i].filter, game)
          THEN [threads EXCEPT
                  ![i].rng.drawn = @ + 1,
                  ![i].game = Some(Played[shuffle]),
                  ![i].pc = IF GameIsClearCall(Played[shuffle]) = Bool(TRUE)
                            THEN "clear" ELSE "count"]
          ELSE [threads EXCEPT ![i].rng.drawn = @ + 1,
                               ![i].game = Some(game)]
  /\ UNCHANGED <<cards, foundations, piles, deck, op, result, steps, moved,
                 wins, games>>

\* wins.fetch_add(1, Ordering::Relaxed)
WorkerWin(i) ==
  /\ i \in 1..Len(threads)
  /\ threads[i].pc = "clear"
  /\ wins' = fetch_add(wins, 1).value
  /\ threads' = [threads EXCEPT ![i].pc = "count"]
  /\ UNCHANGED <<cards, foundations, piles, deck, op, result, steps, moved,
                 games>>

\* games.fetch_add(1, Ordering::Relaxed), and the end of the pass through
\* the for loop
WorkerGame(i) ==
  /\ i \in 1..Len(threads)
  /\ threads[i].pc = "count"
  /\ games' = fetch_add(games, 1).value
  /\ threads' =
       [threads EXCEPT
          ![i].played = @ + 1,
          ![i].pc = IF threads[i].played + 1 = threads[i].game_count
                    THEN "finished" ELSE "deal"]
  /\ UNCHANGED <<cards, foundations, piles, deck, op, result, steps, moved,
                 wins>>

\* Join going on to the next worker whether this one has finished or not
Join_NoWait ==
  /\ op[1] = "join"
  /\ op' = [op EXCEPT ![1] = IF op[4] + 1 = op[3] THEN "print" ELSE "join",
                      ![4] = @ + 1]
  /\ UNCHANGED <<cards, foundations, piles, deck, result, steps, moved,
                 wins, games, threads>>

\* t.join().unwrap() on the next worker, which returns once it has finished
Join ==
  /\ op[1] = "join"
  /\ threads[op[4] + 1].pc = "finished"
  /\ op' = [op EXCEPT ![1] = IF op[4] + 1 = op[3] THEN "print" ELSE "join",
                      ![4] = @ + 1]
  /\ UNCHANGED <<cards, foundations, piles, deck, result, steps, moved,
                 wins, games, threads>>

\* println!("{}/{} wins", wins.load(SeqCst), games.load(SeqCst))
PrintTotals ==
  /\ op[1] = "print"
  /\ op' = [op EXCEPT ![1] = "done"]
  /\ result' = Returned(<<wins, games>>)
  /\ UNCHANGED <<cards, foundations, piles, deck, steps, moved,
                 wins, games, threads>>

NextRun ==
  \/ Spawn
  \/ \E i \in 1..MaxThreads : WorkerPlay(i) \/ WorkerWin(i) \/ WorkerGame(i)
  \/ Join
  \/ PrintTotals

SpecRun == InitRun /\ [][NextRun]_vars

(***************************************************************************)
(* run_klondike with any GameFilter for F.  op carries F as a fifth        *)
(* element; the rng of a worker is the first deals of its stream, as many  *)
(* as its games and MaxRejects more.                                       *)
(***************************************************************************)

InitRunFiltered ==
  /\ \E game_count \in 0..MaxFilteredGames, thread_count \in 1..MaxFilteredThreads,
        F \in Filters :
       op = <<"spawn", game_count, thread_count, 0, F>>
  /\ threads = <<>>
  /\ wins = 0
  /\ games = 0
  /\ moved = FALSE
  /\ cards = <<>> /\ foundations = <<>> /\ piles = <<>> /\ deck = <<>>
  /\ result = Unit
  /\ steps = 0

\* one pass through the spawn loop: worker i = Len(threads) starts, with
\* F::new() as its filter
SpawnFiltered ==
  /\ op[1] = "spawn"
  /\ LET i == Len(threads)
         game_count == GamesOfThread(op[2], op[3], i)
     IN /\ \E stream \in [1..(game_count + MaxRejects) -> Deals] :
             threads' =
               Append(threads,
                      [game_count |-> game_count,
                       played |-> 0,
                       rng |-> [stream |-> stream, drawn |-> 0],
                       filter |-> op[5],
                       game |-> None,
                       pc |-> IF game_count = 0 THEN "finished" ELSE "deal"])
        /\ op' = [op EXCEPT ![1] = IF i + 1 = op[3] THEN "join" ELSE "spawn"]
  /\ UNCHANGED <<cards, foundations, piles, deck, result, steps, moved,
                 wins, games>>

NextRunFiltered ==
  \/ SpawnFiltered
  \/ \E i \in 1..MaxFilteredThreads :
       WorkerPlay(i) \/ WorkerWin(i) \/ WorkerGame(i)
  \/ Join
  \/ PrintTotals

\* the main thread and every worker thread get to run
SpecRunFiltered ==
  /\ InitRunFiltered
  /\ [][NextRunFiltered]_vars
  /\ WF_vars(SpawnFiltered)
  /\ \A i \in 1..MaxFilteredThreads :
       WF_vars(WorkerPlay(i) \/ WorkerWin(i) \/ WorkerGame(i))

\* f[1] + ... + f[n]
RECURSIVE SumTo(_, _)
SumTo(f, n) == IF n = 0 THEN 0 ELSE f[n] + SumTo(f, n - 1)

\* C27 (split of the games): once the workers are spawned, their game
\* counts add up to the requested game count, no two of them differ by more
\* than 1, and the workers with a count larger than some other are exactly
\* the first game_count mod thread_count ones.
C27_EvenSplit ==
  LET game_count == op[2]
      thread_count == op[3]
      count == [i \in 1..Len(threads) |-> threads[i].game_count]
  IN Len(threads) = thread_count =>
       /\ SumTo(count, thread_count) = game_count
       /\ \A i, j \in 1..thread_count : count[i] - count[j] <= 1
       /\ \A i \in 1..thread_count :
            (\E j \in 1..thread_count : count[j] < count[i])
              <=> i <= game_count % thread_count

\* four games over three workers: two for the first, one for each other
C27_Witness ==
  /\ op[2] = 4 /\ op[3] = 3
  /\ Len(threads) = 3
  /\ threads[1].game_count = 2
  /\ threads[2].game_count = 1
  /\ threads[3].game_count = 1

\* the shuffles of a stream after which play leaves a clear game
ClearDeals(stream, n) ==
  Cardinality({k \in 1..n : GameIsClear(Played[stream[k]])})

\* C28 (totals): the main thread gets to read the counters only when every
\* worker has been spawned and has finished; what it then prints is the
\* requested game count and the number of games played that ended with
\* is_clear() true.  At every instant games is the number of passes the
\* workers have completed and wins the number of clear games they have
\* counted: no increment is lost or made twice.
C28_TotalsAfterJoin ==
  LET n == Len(threads)
      passes == [i \in 1..n |-> threads[i].played]
      cleared == [i \in 1..n |->
                    ClearDeals(threads[i].rng.stream, threads[i].played)
                      + (IF threads[i].pc = "count"
                            /\ GameIsClear(threads[i].game[1])
                         THEN 1 ELSE 0)]
  IN /\ op[1] \in {"print", "done"} =>
          /\ n = op[3]
          /\ \A i \in 1..n : threads[i].pc = "finished"
     /\ op[1] = "done" =>
          /\ result = Returned(<<wins, games>>)
          /\ games = op[2]
     /\ games = SumTo(passes, n)
     /\ wins = SumTo(cleared, n)

\* three games over two workers have been played and counted, one of them
\* won, and the totals 1/3 have been printed
C28_Witness ==
  /\ op = <<"done", 3, 2, 2>>
  /\ result = Returned(<<1, 3>>)
  /\ wins = 1
  /\ games = 3
  /\ \A i \in 1..2 : threads[i].pc = "finished"

\* C29 (independent workers): the totals printed are a function of the
\* workers' own deal sequences alone (the clear games among each worker's
\* deals, and the number of deals), whatever the interleaving; a step
\* changes the locals of at most one worker, and no step changes the
\* sequence of deals a worker's rng will produce.
C29_WorkersIndependent ==
  /\ [](op[1] = "done" =>
          LET n == Len(threads)
              deals == [i \in 1..n |-> Len(threads[i].rng.stream)]
              clear == [i \in 1..n |->
                          ClearDeals(threads[i].rng.stream,
                                     Len(threads[i].rng.stream))]
          IN result = Returned(<<SumTo(clear, n), SumTo(deals, n)>>))
  /\ [][/\ \A i, j \in 1..Len(threads) :
             i # j => threads'[i] = threads[i] \/ threads'[j] = threads[j]
        /\ \A i \in 1..Len(threads) :
             threads'[i].rng.stream = threads[i].rng.stream]_vars

\* two workers, the first dealt the unshuffled deck, the second the winning
\* deal, have both finished and the totals 1/2 have been printed
C29_Witness ==
  /\ op[1] = "done"
  /\ Len(threads) = 2
  /\ threads[1].rng = [stream |-> <<ShufflePerm(1)>>, drawn |-> 1]
  /\ threads[2].rng = [stream |-> <<WinningShuffle>>, drawn |-> 1]
  /\ ~GameIsClear(threads[1].game[1])
  /\ GameIsClear(threads[2].game[1])
  /\ result = Returned(<<1, 2>>)

\* play, looking at game g, would move a card
StrategyMove(g) ==
  \/ check_pile_to_foundation(g) # None
  \/ /\ Len(DeckVisibleCards(g.deck)) # 0
     /\ \/ move_cards(g, SourceDeck, TargetFoundation).ret = Ok
        \/ check_deck_to_pile(g) # None

\* the deck of g is at its start, and through a whole cycle of draws from
\* there play would find no card to move
StuckAfterFullPass(g) ==
  /\ is_at_start(g.deck)
  /\ \A k \in 0..(CycleLength(g.deck) - 1) :
       ~StrategyMove([g EXCEPT !.deck = DrawTimes(g.deck, k)])

\* C31 (stuck game): when play has given up on a freshly dealt game that is
\* not clear, the deck is back at no visible and no waste cards and a whole
\* pass through it offers play no card to move; is_clear() then answers
\* false without an error, the worker does not touch wins, and its next
\* step counts the game once in games.
C31_StuckGameCounted ==
  [][\A i \in 1..Len(threads) :
       /\ (WorkerPlay(i) /\ threads'[i].pc = "count") =>
            /\ ~GameIsClear(threads'[i].game[1])
            /\ StuckAfterFullPass(threads'[i].game[1])
            /\ GameIsClearCall(threads'[i].game[1]) = Bool(FALSE)
            /\ wins' = wins /\ games' = games
       /\ WorkerWin(i) => GameIsClear(threads[i].game[1])
       /\ (WorkerGame(i) /\ ~GameIsClear(threads[i].game[1])) =>
            /\ games' = games + 1
            /\ wins' = wins
            /\ threads'[i].played = threads[i].played + 1]_vars

\* the only worker has played the unshuffled deal, got stuck with cards left
\* in the deck, and has counted it: one game, no win
C31_Witness ==
  /\ Len(threads) = 1
  /\ threads[1].played = 1
  /\ threads[1].rng.stream[1] = ShufflePerm(1)
  /\ ~GameIsClear(threads[1].game[1])
  /\ Len(threads[1].game[1].deck.cards) > 0
  /\ StuckAfterFullPass(threads[1].game[1])
  /\ games = 1
  /\ wins = 0

\* C33 (unwraps succeed): play has not panicked; in every state play is in,
\* a pair proposed by check_pile_to_foundation is moved by move_cards with
\* Ok, a deck with visible cards has a top card, and a pair proposed by
\* check_deck_to_pile for that top card is moved by move_cards with Ok.
C33_UnwrapsSucceed ==
  /\ op # <<"panicked">>
  /\ result # Panic
  /\ op = <<"play">> =>
       /\ check_pile_to_foundation(Game) # None =>
            move_cards(Game, check_pile_to_foundation(Game)[1][1],
                       check_pile_to_foundation(Game)[1][2]).ret = Ok
       /\ Len(DeckVisibleCards(deck)) # 0 =>
            /\ DeckTop(deck) # None
            /\ check_deck_to_pile(Game) # None =>
                 move_cards(Game, check_deck_to_pile(Game)[1][1],
                            check_deck_to_pile(Game)[1][2]).ret = Ok

\* play is about to unwrap a move from the deck to a pile: no pile top fits
\* a foundation, the top card of the deck does not fit its foundation, and
\* check_deck_to_pile proposes a pile
C33_Witness ==
  /\ op = <<"play">>
  /\ ~GameIsClear(Game)
  /\ check_pile_to_foundation(Game) = None
  /\ Len(DeckVisibleCards(deck)) # 0
  /\ move_cards(Game, SourceDeck, TargetFoundation).ret # Ok
  /\ check_deck_to_pile(Game) # None

\* C34 (only InvalidMove): move_cards returns Ok or Err(InvalidMove) (or
\* panics on a pile index out of range), never Capacity or InvalidCard; in
\* particular a move from the deck or from a foundation to a pile whose
\* can_push refuses the card, with Capacity or with InvalidCard, returns
\* Err(InvalidMove).
C34_OnlyInvalidMove ==
  [][op'[1] = "move_cards" =>
       /\ result' \in {Ok, Panic, Err("InvalidMove")}
       /\ \A i \in PileIndex :
            /\ ( /\ op' = <<"move_cards", "Deck", "Pile">>
                 /\ DeckTop(deck) # None
                 /\ MoveCards(SourceDeck, TargetPile(i))
                 /\ PileCanPush(piles[i], DeckTop(deck)[1])
                      \in {Err("Capacity"), Err("InvalidCard")} )
               => result' = Err("InvalidMove")
            /\ \A s \in Suit :
                 ( /\ op' = <<"move_cards", "Foundation", "Pile">>
                   /\ FoundationTop(foundation(Game, s)) # None
                   /\ MoveCards(SourceFoundation(s), TargetPile(i))
                   /\ PileCanPush(piles[i],
                                  FoundationTop(foundation(Game, s))[1])
                        \in {Err("Capacity"), Err("InvalidCard")} )
                 => result' = Err("InvalidMove")]_vars

\* a move from the deck to a pile has just failed with InvalidMove while the
\* deck shows a card, so it was the pile that refused it; one pile refuses
\* the card with Capacity and another with InvalidCard
C34_Witness ==
  /\ op = <<"move_cards", "Deck", "Pile">>
  /\ result = Err("InvalidMove")
  /\ DeckTop(deck) # None
  /\ \E i \in PileIndex :
       PileCanPush(piles[i], DeckTop(deck)[1]) = Err("Capacity")
  /\ \E i \in PileIndex :
       PileCanPush(piles[i], DeckTop(deck)[1]) = Err("InvalidCard")

\* the cards on the four foundations
CardsOnFoundations ==
  FoundationCount(foundations[0]) + FoundationCount(foundations[1])
    + FoundationCount(foundations[2]) + FoundationCount(foundations[3])

\* the cards of deck d that this pass through it has not reached yet
NotYetDrawn(d) == Len(d.cards) - (d.visible_index + d.visible_count)

\* what is left for play to do: the cards not yet on a foundation plus the
\* cards in the deck, then whether a card was moved in this pass, then the
\* cards of the deck still to come in this pass
PlayMeasure ==
  <<(STANDARD_DECK_SIZE - CardsOnFoundations) + Len(deck.cards),
    IF moved THEN 1 ELSE 0,
    NotYetDrawn(deck)>>

\* a comes before b in the lexicographic order of triples of naturals
LexLess(a, b) ==
  \/ a[1] < b[1]
  \/ a[1] = b[1] /\ a[2] < b[2]
  \/ a[1] = b[1] /\ a[2] = b[2] /\ a[3] < b[3]

\* C32 (play terminates): on every fresh deal, with every draw count, each
\* pass of the loop of play either returns or goes on with strictly less
\* left to do, in a well-founded order: a pass that moves a card makes the
\* deck smaller or puts one more card on the foundations (and no pass does
\* the opposite), a draw that does not end the pass leaves fewer cards to
\* come in it, and a draw that ends a pass without a move returns. So the
\* loop cannot go on forever.
C32_PlayTerminates ==
  [][op = <<"play">> =>
       /\ \/ op' = <<"returned">>
          \/ /\ op' = <<"play">>
             /\ LexLess(PlayMeasure', PlayMeasure)
             /\ \A n \in 1..3 : PlayMeasure'[n] >= 0
       /\ Len(deck'.cards) <= Len(deck.cards)
       /\ CardsOnFoundations' >= CardsOnFoundations
       /\ (piles' # piles \/ foundations' # foundations
             \/ Len(deck'.cards) # Len(deck.cards)) =>
            \/ Len(deck'.cards) < Len(deck.cards)
            \/ CardsOnFoundations' > CardsOnFoundations]_vars

\* play has returned from a game it could not clear after moving cards from
\* the deck and onto the foundations, with a draw count of 3
C32_Witness ==
  /\ op = <<"returned">>
  /\ deck.draw_count = 3
  /\ ~GameIsClear(Game)
  /\ Len(deck.cards) < MAX_DECK_SIZE
  /\ CardsOnFoundations > 0

\* the games right after new_shuffle
FreshDeals ==
  {GameNewShuffle(dc, ShufflePerm(k)) : dc \in DrawCounts, k \in ShuffleKeys}

\* C37 (reset is deterministic): no operation changes the card pool; in a
\* game made by new_shuffle, reset() after any moves and draws gives exactly
\* the game as it was right after construction; and a second reset() right
\* after a reset() changes nothing.
C37_ResetRestoresDeal ==
  [][/\ cards' = cards
     /\ Reset =>
          /\ \A fresh \in FreshDeals :
               (cards = fresh.cards /\ deck.draw_count = fresh.deck.draw_count)
                 => Game' = fresh
          /\ GameReset(Game') = Game']_vars

\* reset() was the third operation on a game, after two moves or draws, and
\* the game is as new_shuffle made it
C37_Witness ==
  /\ op = <<"reset">>
  /\ steps = 3
  /\ Game \in FreshDeals

(***************************************************************************)
(* Foundation on its own: push and pop called on a foundation of any suit  *)
(* holding any number of cards; foundations is the one foundation.         *)
(***************************************************************************)

InitFoundation ==
  /\ NoRun
  /\ \E suit \in Suit :
       \E rank \in {None} \cup {Some(RANKS[i]) : i \in 0..(RANKS_len - 1)} :
         foundations = <<FoundationFrom(suit, rank)>>
  /\ cards = <<>>
  /\ piles = <<>>
  /\ deck = <<>>
  /\ op = <<"from">>
  /\ result = Unit
  /\ steps = 0

FoundationPushCall ==
  /\ UNCHANGED runVars
  /\ foundations' = <<FoundationPush(foundations[1]).foundation>>
  /\ op' = <<"push">>
  /\ result' = Returned(FoundationPush(foundations[1]).ret)
  /\ UNCHANGED <<cards, piles, deck, steps>>

FoundationPopCall ==
  /\ UNCHANGED runVars
  /\ foundations' = <<FoundationPop(foundations[1]).foundation>>
  /\ op' = <<"pop">>
  /\ result' = Returned(FoundationPop(foundations[1]).ret)
  /\ UNCHANGED <<cards, piles, deck, steps>>

NextFoundation == FoundationPushCall \/ FoundationPopCall

SpecFoundation == InitFoundation /\ [][NextFoundation]_vars

\* C39 (cards returned by a foundation): whenever push() returns a card it
\* is the card just placed, that is next_card() before the call and top()
\* after it, and whenever pop() returns a card it is the card just removed,
\* that is top() before the call.
C39_ReturnsCardMoved ==
  [][/\ (FoundationPushCall /\ result'.tag = "Some") =>
          /\ result'.val = FoundationNextCard(foundations[1])
          /\ result'.val = FoundationTop(foundations'[1])
     /\ (FoundationPopCall /\ result'.tag = "Some") =>
          result'.val = FoundationTop(foundations[1])]_vars

\* C38 (foundation to pile and back): right after a successful
\* move_cards(Foundation(s), Pile(i)), move_cards(Pile(i), Foundation)
\* returns Ok and gives back exactly the game as it was before the first
\* move.
C38_FoundationPileRoundTrip ==
  [][(op' = <<"move_cards", "Foundation", "Pile">> /\ result' = Ok) =>
       \A i \in PileIndex :
         piles'[i] # piles[i] =>
           \A back \in {move_cards(Game', SourcePile(i), TargetFoundation)} :
             /\ back.ret = Ok
             /\ back.game = Game]_vars

\* a card has just come down from a foundation onto a pile
C38_Witness ==
  /\ op = <<"move_cards", "Foundation", "Pile">>
  /\ result = Ok
  /\ \E i \in PileIndex :
       /\ PileTop(piles[i]) # None
       /\ FoundationNextCard(foundation(Game, PileTop(piles[i])[1].suit))
            = PileTop(piles[i])

\* the workers that have added their win to wins and not yet their game to
\* games: between the two fetch_add calls of one pass
BetweenCounters ==
  {i \in 1..Len(threads) :
     /\ threads[i].pc = "count"
     /\ threads[i].game # None
     /\ GameIsClear(threads[i].game[1])}

\* C35 (wins and games), as the code has it: wins never exceeds games by
\* more than the number of workers that are between wins.fetch_add and
\* games.fetch_add for the game they have just won, and once every worker
\* is joined, when the totals are read, wins is at most games.
C35_WinsWithinGamesAndInFlight ==
  /\ wins <= games + Cardinality(BetweenCounters)
  /\ Cardinality(BetweenCounters) <= Len(threads)
  /\ op[1] \in {"print", "done"} => wins <= games

\* C35 as stated: at every instant, under every interleaving, wins is at
\* most games.
C35_WinsAtMostGames == wins <= games

\* a worker has won its first game and added it to wins, and no game has
\* been added to games yet
C35_Witness ==
  /\ wins = 1
  /\ games = 0
  /\ BetweenCounters # {}

\* new_shuffle(1, shuffle), for each shuffle
Dealt == [shuffle \in Deals |-> GameNewShuffle(1, shuffle)]

\* the deals worker i has been handed so far that its filter accepts
AcceptedDeals(i) ==
  {k \in 1..threads[i].rng.drawn :
     Accept(threads[i].filter, Dealt[threads[i].rng.stream[k]])}

\* the filter of worker i accepts as many of the deals of its rng as the
\* worker has games to play
AcceptsEnough(i) ==
  Cardinality({k \in 1..Len(threads[i].rng.stream) :
                 Accept(threads[i].filter, Dealt[threads[i].rng.stream[k]])})
    >= threads[i].game_count

\* C36 (rejected deals): a deal the filter rejects is not played and not
\* counted, and the worker deals again; each increment of games is for one
\* accepted deal that play has finished with; the games a worker has counted,
\* with the one it is counting, are as many as the deals its filter has
\* accepted, and it has finished exactly when that number is its game_count
\* and all of them are counted; a worker whose filter accepts that many of
\* its deals does finish.
C36_RejectedDealsNotCounted ==
  /\ <>[](/\ Len(threads) = op[3]
          /\ \A i \in 1..Len(threads) :
               AcceptsEnough(i) => threads[i].pc = "finished")
  /\ [](\A i \in 1..Len(threads) :
          LET in_flight == IF threads[i].pc \in {"clear", "count"}
                           THEN 1 ELSE 0
          IN /\ threads[i].played + in_flight = Cardinality(AcceptedDeals(i))
             /\ threads[i].pc = "finished" <=>
                  /\ Cardinality(AcceptedDeals(i)) = threads[i].game_count
                  /\ in_flight = 0)
  /\ [](games = SumTo([i \in 1..Len(threads) |-> threads[i].played],
                      Len(threads)))
  /\ [][\A i \in 1..Len(threads) :
          LET dealt == Dealt[threads[i].rng.stream[threads[i].rng.drawn + 1]]
              last == threads[i].rng.stream[threads[i].rng.drawn]
          IN /\ (WorkerPlay(i) /\ ~Accept(threads[i].filter, dealt)) =>
                  /\ threads'[i].game = Some(dealt)
                  /\ threads'[i].pc = "deal"
                  /\ threads'[i].played = threads[i].played
                  /\ threads'[i].rng.drawn = threads[i].rng.drawn + 1
                  /\ games' = games /\ wins' = wins
             /\ (WorkerPlay(i) /\ Accept(threads[i].filter, dealt)) =>
                  /\ threads'[i].game =
                       Some(Played[threads[i].rng.stream[
                                     threads[i].rng.drawn + 1]])
                  /\ threads'[i].pc \in {"clear", "count"}
             /\ WorkerGame(i) =>
                  /\ games' = games + 1
                  /\ threads[i].game = Some(Played[last])
                  /\ Accept(threads[i].filter, Dealt[last])]_vars

\* a worker with two games to play has finished them after three deals, one
\* of which its filter rejected; two games are counted
C36_Witness ==
  /\ Len(threads) = 1
  /\ threads[1].game_count = 2
  /\ threads[1].pc = "finished"
  /\ threads[1].rng.drawn = 3
  /\ Cardinality(AcceptedDeals(1)) = 2
  /\ games = 2

====
